---- MODULE Spec2Model ----
(***************************************************************************)
(* stg2veriloga: the net builder (STG.__init__, matchTP, matchPlace) and   *)
(* the behaviour of the statements it emits (the generated model): reset   *)
(* block, per-signal edge handlers, and the bounded cascade loop.          *)
(*                                                                         *)
(* Names (signals, tokens, places) are sequences of one-character strings, *)
(* so that the regular expression of matchTP and the concatenation that    *)
(* names an implicit place are computed, not assumed.                      *)
(***************************************************************************)
EXTENDS Integers, Sequences, FiniteSets, TLC

(***************************************************************************)
(* Bounds of the exploration (not program constants).                      *)
(***************************************************************************)
\* Environment events are offered only while no place holds more than
\* its initial marking plus MaxExtra tokens.
MaxExtra == 2

(***************************************************************************)
(* Program constants.                                                      *)
(***************************************************************************)
\* If(self.iter > 500)(Fatal(...))
CascadeCap == 500

(***************************************************************************)
(* Characters and the regular expression of matchTP.                       *)
(***************************************************************************)
Letters == {"a", "b", "c", "d", "i", "j", "p", "q", "x", "_"}
Digits  == {"0", "1", "2", "3", "4", "5", "6", "7", "8", "9"}
\* [a-zA-Z_]
IdStart == Letters
\* [a-zA-Z_0-9.]
IdChar  == Letters \cup Digits \cup {"."}
\* [+-~] is the character RANGE from '+' (0x2B) to '~' (0x7E): it holds
\* every letter and digit and , - . / as well as + and ~.
EdgeRange == Letters \cup Digits \cup {"+", ",", "-", ".", "/", "~"}

Str(c) == <<c>>

RECURSIVE IdLen(_, _)
\* length of the longest prefix of s[k..] made of IdChar
IdLen(s, k) ==
    IF k <= Len(s) /\ s[k] \in IdChar THEN 1 + IdLen(s, k + 1) ELSE 0

RECURSIVE FirstStart(_, _)
\* re.findall scans for the leftmost position where the pattern matches;
\* the pattern matches wherever a character of [a-zA-Z_] stands.
FirstStart(s, k) ==
    IF k > Len(s) THEN 0
    ELSE IF s[k] \in IdStart THEN k ELSE FirstStart(s, k + 1)

\* m = re.findall(pattern, name); m[0][0], m[0][1]
\* matched = FALSE models len(m) = 0.
reMatch(name) ==
    LET b == FirstStart(name, 1) IN
    IF b = 0 THEN [matched |-> FALSE, signame |-> <<>>, sigEdge |-> <<>>]
    ELSE LET n == 1 + IdLen(name, b + 1)
             e == b + n
         IN [matched |-> TRUE,
             signame |-> SubSeq(name, b, e - 1),
             sigEdge |-> IF e <= Len(name) /\ name[e] \in EdgeRange
                         THEN Str(name[e]) ELSE <<>>]

RECURSIVE ParseInt(_)
\* int(cap[1]), int(mark[1]) on a string of decimal digits
ParseInt(ds) ==
    IF Len(ds) = 0 THEN 0
    ELSE LET c == ds[Len(ds)]
             v == CASE c = "0" -> 0 [] c = "1" -> 1 [] c = "2" -> 2
                    [] c = "3" -> 3 [] c = "4" -> 4 [] c = "5" -> 5
                    [] c = "6" -> 6 [] c = "7" -> 7 [] c = "8" -> 8
                    [] c = "9" -> 9
         IN 10 * ParseInt(SubSeq(ds, 1, Len(ds) - 1)) + v

(***************************************************************************)
(* The net under construction: the fields of the STG object.               *)
(*   signals      dict name -> pin, in insertion order; dir is the pin     *)
(*                class ("input" = DigIn, "output" = DigOut)               *)
(*   dummies      list of names                                            *)
(*   tshape       shape of self.transitions[name]: "edges" is the dict     *)
(*                {"+":{}, "-":{}, "~":{}}, "labels" is the flat dict {}   *)
(*   transitions  the Transition objects in creation order                 *)
(*   places       the Place objects in creation order                      *)
(*   rstAt        the reset sequence                                       *)
(*   error        "" or the failure that aborted the build                 *)
(***************************************************************************)
Put(f, k, v) == [x \in DOMAIN f \cup {k} |-> IF x = k THEN v ELSE f[x]]

EmptyMap == [x \in {} |-> 0]

\* "Initialize local variables"
NewSTG ==
    [signals |-> <<>>, dummies |-> <<>>, tshape |-> EmptyMap,
     transitions |-> <<>>, places |-> <<>>,
     markings |-> EmptyMap, capacity |-> EmptyMap,
     rstAt |-> <<>>, error |-> ""]

Fail(stg, msg) == [stg EXCEPT !.error = msg]

SeqRange(s) == {s[i] : i \in 1..Len(s)}

SignalNames(stg) == {stg.signals[i].name : i \in 1..Len(stg.signals)}

SignalDir(stg, name) ==
    LET i == CHOOSE i \in 1..Len(stg.signals) : stg.signals[i].name = name
    IN stg.signals[i].dir

RECURSIVE Flatten(_)
Flatten(ss) == IF Len(ss) = 0 THEN <<>> ELSE Head(ss) \o Flatten(Tail(ss))

\* sigMap['dummy'] = 'dummy'
EffKind(sigMap, sigType) ==
    IF sigType = "dummy" THEN "dummy" ELSE sigMap[sigType]

\* a registration that leaves the pin of an output out of the reset sequence
ReadSignal_mut(stg, kind, signal) ==
    IF stg.error # "" THEN stg
    ELSE IF kind \in {"input", "output"}
    THEN IF signal \in SignalNames(stg)
         THEN Fail(stg, "Duplicated signal")
         ELSE [stg EXCEPT
                 !.signals = Append(@, [name |-> signal, dir |-> kind]),
                 !.tshape = Put(@, signal, "edges")]
    ELSE [stg EXCEPT !.dummies = Append(@, signal),
                     !.tshape = Put(@, signal, "labels")]

\* body of "for signal in signalList"
ReadSignal(stg, kind, signal) ==
    IF stg.error # "" THEN stg
    ELSE IF kind \in {"input", "output"}
    THEN IF signal \in SignalNames(stg)
         THEN Fail(stg, "Duplicated signal")
         ELSE [stg EXCEPT
                 !.signals = Append(@, [name |-> signal, dir |-> kind]),
                 !.rstAt = IF kind = "output"
                           THEN Append(@, [kind |-> "pin", name |-> signal])
                           ELSE @,
                 !.tshape = Put(@, signal, "edges")]
    ELSE [stg EXCEPT !.dummies = Append(@, signal),
                     !.tshape = Put(@, signal, "labels")]

RECURSIVE ReadSignalList(_, _, _)
ReadSignalList(stg, kind, names) ==
    IF Len(names) = 0 THEN stg
    ELSE ReadSignalList(ReadSignal(stg, kind, Head(names)), kind, Tail(names))

SigTypes == <<"output", "input", "internal", "dummy">>

RECURSIVE ReadSignals_mut(_, _, _, _)
\* a build content with any declaration, dummies included
ReadSignals_mut(stg, ast, sigMap, k) ==
    IF k > Len(SigTypes)
    THEN IF stg.error = "" /\ Len(stg.signals) + Len(stg.dummies) = 0
         THEN Fail(stg, "There is no input or output signals")
         ELSE stg
    ELSE LET sigType == SigTypes[k]
             next == IF sigType \in ast.keys
                     THEN ReadSignalList(stg, EffKind(sigMap, sigType),
                                         Flatten(ast[sigType]))
                     ELSE stg
         IN ReadSignals_mut(next, ast, sigMap, k + 1)

RECURSIVE ReadSignals(_, _, _, _)
\* "Read all signals" and the assert that follows it
ReadSignals(stg, ast, sigMap, k) ==
    IF k > Len(SigTypes)
    THEN IF stg.error = "" /\ Len(stg.signals) = 0
         THEN Fail(stg, "There is no input or output signals")
         ELSE stg
    ELSE LET sigType == SigTypes[k]
             next == IF sigType \in ast.keys
                     THEN ReadSignalList(stg, EffKind(sigMap, sigType),
                                         Flatten(ast[sigType]))
                     ELSE stg
         IN ReadSignals(next, ast, sigMap, k + 1)

RECURSIVE ReadCapacityList_mut(_, _)
\* a table in which a later entry replaces an earlier one
ReadCapacityList_mut(stg, caps) ==
    IF Len(caps) = 0 \/ stg.error # "" THEN stg
    ELSE LET cap == Head(caps) IN
         ReadCapacityList_mut(
           IF Len(cap) # 2
           THEN Fail(stg, "capacity list must have two elements")
           ELSE [stg EXCEPT !.capacity = Put(@, cap[1], ParseInt(cap[2]))],
           Tail(caps))

RECURSIVE ReadCapacityList(_, _)
\* "Read capacity"
ReadCapacityList(stg, caps) ==
    IF Len(caps) = 0 \/ stg.error # "" THEN stg
    ELSE LET cap == Head(caps) IN
         ReadCapacityList(
           IF Len(cap) # 2
           THEN Fail(stg, "capacity list must have two elements")
           ELSE IF cap[1] \in DOMAIN stg.capacity
           THEN Fail(stg, "Duplicated capacity")
           ELSE [stg EXCEPT !.capacity = Put(@, cap[1], ParseInt(cap[2]))],
           Tail(caps))

ReadCapacity(stg, ast) ==
    IF "capacity" \in ast.keys
    THEN ReadCapacityList(stg, Flatten(ast.capacity)) ELSE stg

RECURSIVE ReadMarkingList_mut(_, _)
\* a reading in which an entry without a count marks nothing
ReadMarkingList_mut(stg, marks) ==
    IF Len(marks) = 0 \/ stg.error # "" THEN stg
    ELSE LET mark == Head(marks) IN
         ReadMarkingList_mut(
           IF ~(Len(mark) = 2 \/ Len(mark) = 1)
           THEN Fail(stg, "marking list must have one or two elements")
           ELSE IF mark[1] \in DOMAIN stg.markings
           THEN Fail(stg, "Duplicated marking")
           ELSE [stg EXCEPT !.markings =
                   Put(@, mark[1],
                       IF Len(mark) < 2 THEN 0 ELSE ParseInt(mark[2]))],
           Tail(marks))

RECURSIVE ReadMarkingList(_, _)
\* "Read markings"
ReadMarkingList(stg, marks) ==
    IF Len(marks) = 0 \/ stg.error # "" THEN stg
    ELSE LET mark == Head(marks) IN
         ReadMarkingList(
           IF ~(Len(mark) = 2 \/ Len(mark) = 1)
           THEN Fail(stg, "marking list must have one or two elements")
           ELSE IF mark[1] \in DOMAIN stg.markings
           THEN Fail(stg, "Duplicated marking")
           ELSE [stg EXCEPT !.markings =
                   Put(@, mark[1],
                       IF Len(mark) < 2 THEN 1 ELSE ParseInt(mark[2]))],
           Tail(marks))

ReadMarkings(stg, ast) ==
    IF "marking" \in ast.keys
    THEN ReadMarkingList(stg, Flatten(ast.marking)) ELSE stg

(***************************************************************************)
(* Name resolution.                                                        *)
(***************************************************************************)
PlaceNames(stg) == {stg.places[i].name : i \in 1..Len(stg.places)}

TransitionNames(stg) ==
    {stg.transitions[i].name : i \in 1..Len(stg.transitions)}

PlaceIdx(stg, name) ==
    CHOOSE i \in 1..Len(stg.places) : stg.places[i].name = name

TransIdx(stg, name) ==
    CHOOSE i \in 1..Len(stg.transitions) : stg.transitions[i].name = name

\* the result of a resolution: the net after it, the class of the object
\* returned ("Place", "Transition", or "none" when an exception was raised)
\* and the key of the object in its registry
Resolved(stg, cls, name) == [stg |-> stg, cls |-> cls, name |-> name]

\* a resolution that makes a new place whether or not one is registered
matchPlace_mut(stg, name) ==
    Resolved([stg EXCEPT
                !.rstAt = Append(@, [kind |-> "place", name |-> name]),
                !.places = Append(@, [name |-> name, marking |-> 0,
                                      capacity |-> 1, toTransitions |-> <<>>,
                                      fromTransitions |-> <<>>])],
             "Place", name)

matchPlace(stg, name) ==
    IF name \in PlaceNames(stg) THEN Resolved(stg, "Place", name)
    ELSE LET marking  == IF name \in DOMAIN stg.markings
                         THEN stg.markings[name] ELSE 0
             capacity == IF name \in DOMAIN stg.capacity
                         THEN stg.capacity[name] ELSE 1
             P == [name |-> name, marking |-> marking, capacity |-> capacity,
                   toTransitions |-> <<>>, fromTransitions |-> <<>>]
         IN Resolved([stg EXCEPT
                        !.rstAt = Append(@, [kind |-> "place", name |-> name]),
                        !.places = Append(@, P)],
                     "Place", name)

\* a transition that does not keep the ongoing variable made for it
NewTransition_mut(name, signame, sigEdge, var) ==
    [name |-> name, signame |-> signame, edge |-> sigEdge, var |-> FALSE,
     fromPlaces |-> <<>>, toPlaces |-> <<>>]

\* Transition(var): var = TRUE when an ongoing variable was created
NewTransition(name, signame, sigEdge, var) ==
    [name |-> name, signame |-> signame, edge |-> sigEdge, var |-> var,
     fromPlaces |-> <<>>, toPlaces |-> <<>>]

matchTP(stg, name) ==
    LET m == reMatch(name) IN
    IF ~m.matched
    THEN Resolved(Fail(stg, "NameError: Error"), "none", name)
    ELSE IF m.signame \in SignalNames(stg)
    THEN IF stg.tshape[m.signame] # "edges"
            \/ m.sigEdge \notin {Str("+"), Str("-"), Str("~")}
         THEN Resolved(Fail(stg, "KeyError"), "none", name)
         ELSE IF name \in TransitionNames(stg)
         THEN Resolved(stg, "Transition", name)
         ELSE LET out == SignalDir(stg, m.signame) # "input" IN
              Resolved(
                [stg EXCEPT
                   !.rstAt = IF out
                             THEN Append(@, [kind |-> "ongoing", name |-> name])
                             ELSE @,
                   !.transitions =
                       Append(@, NewTransition(name, m.signame, m.sigEdge, out))],
                "Transition", name)
    ELSE IF m.signame \in SeqRange(stg.dummies)
    THEN IF name \in TransitionNames(stg)
         THEN Resolved(stg, "Transition", name)
         ELSE Resolved(
                [stg EXCEPT !.transitions =
                     Append(@, NewTransition(name, m.signame, <<>>, FALSE))],
                "Transition", name)
    ELSE matchPlace(stg, name)

(***************************************************************************)
(* Arcs.                                                                   *)
(***************************************************************************)
\* a link that puts the transition itself into its to-list
LinkTP_mut(stg, t, p) ==
    [stg EXCEPT
       !.transitions[TransIdx(stg, t)].toPlaces = Append(@, t),
       !.places[PlaceIdx(stg, p)].fromTransitions = Append(@, t)]

\* transition.addTo(place); place.addFrom(transition)
LinkTP(stg, t, p) ==
    [stg EXCEPT
       !.transitions[TransIdx(stg, t)].toPlaces = Append(@, p),
       !.places[PlaceIdx(stg, p)].fromTransitions = Append(@, t)]

\* a link that forgets transition.addFrom(place)
LinkPT_mut(stg, p, t) ==
    [stg EXCEPT !.places[PlaceIdx(stg, p)].toTransitions = Append(@, t)]

\* place.addTo(transition); transition.addFrom(place)
LinkPT(stg, p, t) ==
    [stg EXCEPT
       !.places[PlaceIdx(stg, p)].toTransitions = Append(@, t),
       !.transitions[TransIdx(stg, t)].fromPlaces = Append(@, p)]

\* a loop body that passes over an arrow between two places
Connect_mut(stg0, fromCls, fromName, toName) ==
    LET to == matchTP(stg0, toName)
        stg == to.stg
    IN IF stg.error # "" THEN stg
       ELSE IF to.cls = "Place" /\ fromCls = "Place"
       THEN stg
       ELSE IF to.cls = "Transition" /\ fromCls = "Transition"
       THEN LET impName == fromName \o Str(",") \o toName
                imp == matchPlace(stg, impName)
            IN LinkPT(LinkTP(imp.stg, fromName, impName), impName, toName)
       ELSE IF fromCls = "Transition"
       THEN LinkTP(stg, fromName, toName)
       ELSE LinkPT(stg, fromName, toName)

\* body of "for toName in arrow[1:]"
Connect(stg0, fromCls, fromName, toName) ==
    LET to == matchTP(stg0, toName)
        stg == to.stg
    IN IF stg.error # "" THEN stg
       ELSE IF to.cls = "Place" /\ fromCls = "Place"
       \* the assertion fails and its message, which names the undefined
       \* fromTPName, raises NameError in its place
       THEN Fail(stg, "NameError: arrow from place to place")
       ELSE IF to.cls = "Transition" /\ fromCls = "Transition"
       THEN LET impName == fromName \o Str(",") \o toName
                imp == matchPlace(stg, impName)
            \* fromTP.addTo(impPlace); toTP.addFrom(impPlace);
            \* impPlace.addFrom(fromTP); impPlace.addTo(toTP)
            IN LinkPT(LinkTP(imp.stg, fromName, impName), impName, toName)
       ELSE IF fromCls = "Transition"
       THEN LinkTP(stg, fromName, toName)
       ELSE LinkPT(stg, fromName, toName)

RECURSIVE ConnectAll(_, _, _, _)
ConnectAll(stg, fromCls, fromName, toNames) ==
    IF Len(toNames) = 0 \/ stg.error # "" THEN stg
    ELSE ConnectAll(Connect(stg, fromCls, fromName, Head(toNames)),
                    fromCls, fromName, Tail(toNames))

\* body of "for arrow in arrows"
ReadArrow(stg, arrow) ==
    IF Len(arrow) = 0 THEN Fail(stg, "IndexError")
    ELSE LET from == matchTP(stg, arrow[1]) IN
         ConnectAll(from.stg, from.cls, arrow[1], Tail(arrow))

RECURSIVE ReadArrows(_, _)
ReadArrows(stg, arrows) ==
    IF Len(arrows) = 0 \/ stg.error # "" THEN stg
    ELSE ReadArrows(ReadArrow(stg, Head(arrows)), Tail(arrows))

\* assert 'graph' in ast; assert len(arrows) > 0
CheckGraph(stg, ast) ==
    IF "graph" \notin ast.keys
    THEN Fail(stg, "No graph declaration was found")
    ELSE IF Len(Flatten(ast.graph)) = 0 THEN Fail(stg, "There is no arrows")
    ELSE stg

\* "Read Graph"
ReadGraph(stg, ast) ==
    IF stg.error # "" THEN stg
    ELSE LET checked == CheckGraph(stg, ast) IN
         IF checked.error # "" THEN checked
         ELSE ReadArrows(checked, Flatten(ast.graph))

\* STG.__init__ up to "build stg"
Build(ast, sigMap) ==
    ReadGraph(
      ReadMarkings(
        ReadCapacity(ReadSignals(NewSTG, ast, sigMap, 1), ast), ast), ast)

(***************************************************************************)
(* Code generation: the statement lists STG.__init__ emits.  A statement   *)
(* is [op, t, sig]: the kind of If-statement, the transition it is about   *)
(* and the signal of the handler or request.                               *)
(*   "doneZero"   self.done.eq(0), first statement of an edge handler      *)
(*   "fireDummy"  If(isEnabled)(fire, done.eq(0))                          *)
(*   "reqRise"    If(isEnabled)(getTokens, If(getST)(Strobe, err)          *)
(*                                         .Else(write(True)), done.eq(0)) *)
(*   "reqFall"    If(isEnabled)(getTokens, If(getST)(write(False))         *)
(*                                         .Else(Strobe, err), done.eq(0)) *)
(*   "reqToggle"  If(isEnabled)(getTokens, toggle, done.eq(0))             *)
(*   "commit"     If(isOnGoing)(putTokens, done.inc)                       *)
(*   "fireInput"  If(isEnabled)(fire, done.inc)                            *)
(*   "chkNone"    If(done == 0)(Strobe, err)                               *)
(*   "chkMany"    If(done > 1)(Strobe, err)                                *)
(***************************************************************************)
Stmt(op, t, sig) == [op |-> op, t |-> t, sig |-> sig]

Edges == <<Str("+"), Str("-"), Str("~")>>

\* the keys of self.transitions[signame][edge] (edge = <<>>: the flat dict
\* of a dummy), in insertion order
TransOf(stg, signame, edge) ==
    LET sel == SelectSeq(stg.transitions,
                         LAMBDA T : T.signame = signame /\ T.edge = edge)
    IN [i \in 1..Len(sel) |-> sel[i].name]

RECURSIVE DummyStmts(_, _)
\* "for dummy in self.dummies: for transition in self.transitions[dummy]"
DummyStmts(stg, k) ==
    IF k > Len(stg.dummies) THEN <<>>
    ELSE LET ts == TransOf(stg, stg.dummies[k], <<>>) IN
         [i \in 1..Len(ts) |-> Stmt("fireDummy", ts[i], stg.dummies[k])]
         \o DummyStmts(stg, k + 1)

\* the request appended to cmdOut for one transition of a DigOut signal
RequestStmt(signal, edge, t) ==
    Stmt(CASE edge = Str("+") -> "reqRise"
           [] edge = Str("-") -> "reqFall"
           [] OTHER -> "reqToggle", t, signal)

RECURSIVE SignalRequests(_, _, _)
\* cmdOut.append(...) over "for edge in ['+','-','~']" of one signal
SignalRequests(stg, signal, e) ==
    IF e > Len(Edges) THEN <<>>
    ELSE LET ts == TransOf(stg, signal, Edges[e]) IN
         [i \in 1..Len(ts) |-> RequestStmt(signal, Edges[e], ts[i])]
         \o SignalRequests(stg, signal, e + 1)

RECURSIVE RequestStmts(_, _)
\* cmdOut.append(...) over "for signal in self.signals"
RequestStmts(stg, k) ==
    IF k > Len(stg.signals) THEN <<>>
    ELSE (IF stg.signals[k].dir # "input"
          THEN SignalRequests(stg, stg.signals[k].name, 1) ELSE <<>>)
         \o RequestStmts(stg, k + 1)

\* a loop body that forgets the statements of the dummies
cmdOut_mut(stg) == RequestStmts(stg, 1)

cmdOut(stg) == DummyStmts(stg, 1) \o RequestStmts(stg, 1)

RECURSIVE HandlerStmts(_, _, _, _)
\* sigIfRising.append / sigIfFalling.append over the edges of one signal;
\* dirn is "rising" or "falling"
HandlerStmts(stg, sig, dirn, e) ==
    IF e > Len(Edges) THEN <<>>
    ELSE LET edge == Edges[e]
             ts == TransOf(stg, sig.name, edge)
             here == \/ edge = Str("~")
                     \/ edge = Str("+") /\ dirn = "rising"
                     \/ edge = Str("-") /\ dirn = "falling"
             op == IF sig.dir # "input" THEN "commit" ELSE "fireInput"
         IN (IF here THEN [i \in 1..Len(ts) |-> Stmt(op, ts[i], sig.name)]
             ELSE <<>>)
            \o HandlerStmts(stg, sig, dirn, e + 1)

\* the body of sigIfRising (dirn = "rising") or sigIfFalling of one signal
Handler(stg, sig, dirn) ==
    <<Stmt("doneZero", <<>>, sig.name)>>
    \o HandlerStmts(stg, sig, dirn, 1)
    \o <<Stmt("chkNone", <<>>, sig.name), Stmt("chkMany", <<>>, sig.name)>>

\* "build stg": the analog blocks handed to the module.  The loops index
\* self.transitions[signal][edge], which raises KeyError when a later
\* declaration replaced the dict of a signal by the flat dict of a dummy.
Emit(stg) ==
    IF stg.error # "" THEN [error |-> stg.error]
    ELSE IF \E i \in 1..Len(stg.signals) :
               stg.tshape[stg.signals[i].name] # "edges"
    THEN [error |-> "KeyError"]
    ELSE [error |-> "",
          cmdOut |-> cmdOut(stg),
          sigIfRising  |-> [i \in 1..Len(stg.signals) |->
                              Handler(stg, stg.signals[i], "rising")],
          sigIfFalling |-> [i \in 1..Len(stg.signals) |->
                              Handler(stg, stg.signals[i], "falling")]]

(***************************************************************************)
(* Execution of the emitted statements.  A machine state M is the record   *)
(* of the variables the generated model declares:                          *)
(*   tokens   Place.var of every place                                     *)
(*   ongoing  Transition.var of every transition of a DigOut signal        *)
(*   st       the driven level of every DigOut pin (getST / write)         *)
(*   errVar   STG_ERROR                                                    *)
(*   done     _$done                                                       *)
(*   out      the Strobe messages of the statement being executed          *)
(***************************************************************************)
TransitionOf(stg, t) == stg.transitions[TransIdx(stg, t)]

PlaceOf(stg, p) == stg.places[PlaceIdx(stg, p)]

Diag(kind, subject) == [kind |-> kind, subject |-> subject]

\* a guard that also accepts an empty place
hasToken_mut(M, p) == M.tokens[p] >= 0

\* Place.hasToken
hasToken(M, p) == M.tokens[p] > 0

RECURSIVE isEnabledFrom(_, _, _)
isEnabledFrom(M, from, ans) ==
    IF Len(from) = 0 THEN ans
    ELSE isEnabledFrom(M, Tail(from), ans /\ hasToken(M, Head(from)))

\* a guard that wants at least one from-place
isEnabled_mut(stg, M, t) ==
    /\ Len(TransitionOf(stg, t).fromPlaces) > 0
    /\ isEnabledFrom(M, TransitionOf(stg, t).fromPlaces, TRUE)

\* Transition.isEnabled
isEnabled(stg, M, t) == isEnabledFrom(M, TransitionOf(stg, t).fromPlaces, TRUE)

\* Transition.isOnGoing
isOnGoing(M, t) == M.ongoing[t]

\* Place.getToken
getToken(M, p) == [M EXCEPT !.tokens[p] = @ - 1]

\* a placement that reports the violation and refuses the token
putToken_mut(stg, M, p) ==
    IF M.tokens[p] + 1 > PlaceOf(stg, p).capacity
    THEN [M EXCEPT !.out = Append(@, Diag("capacity", p)), !.errVar = TRUE]
    ELSE [M EXCEPT !.tokens[p] = @ + 1]

\* a placement that prints the violation and leaves STG_ERROR alone
putToken_silent(stg, M, p) ==
    LET M1 == [M EXCEPT !.tokens[p] = @ + 1] IN
    IF M1.tokens[p] > PlaceOf(stg, p).capacity
    THEN [M1 EXCEPT !.out = Append(@, Diag("capacity", p))]
    ELSE M1

\* Place.putToken
putToken(stg, M, p) ==
    LET M1 == [M EXCEPT !.tokens[p] = @ + 1] IN
    IF M1.tokens[p] > PlaceOf(stg, p).capacity
    THEN [M1 EXCEPT !.out = Append(@, Diag("capacity", p)), !.errVar = TRUE]
    ELSE M1

RECURSIVE getAll(_, _)
\* "for fromItem in self.getFrom(): ans.append(fromItem.getToken())"
getAll(M, from) ==
    IF Len(from) = 0 THEN M ELSE getAll(getToken(M, Head(from)), Tail(from))

\* a firing whose tokens never reach the to-places
putAll_mut(stg, M, to) == M

RECURSIVE putAll(_, _, _)
\* "for toItem in self.getTo(): ans.append(toItem.putToken())"
putAll(stg, M, to) ==
    IF Len(to) = 0 THEN M
    ELSE putAll(stg, putToken(stg, M, Head(to)), Tail(to))

\* a request that takes the tokens and leaves the ongoing cell alone
getTokens_mut(stg, M, t) == getAll(M, TransitionOf(stg, t).fromPlaces)

\* Transition.getTokens
getTokens(stg, M, t) ==
    getAll([M EXCEPT !.ongoing[t] = TRUE], TransitionOf(stg, t).fromPlaces)

\* a commit that clears the ongoing cell of every transition
putTokens_all(stg, M, t) ==
    putAll(stg, [M EXCEPT !.ongoing = [u \in DOMAIN @ |-> FALSE]],
           TransitionOf(stg, t).toPlaces)

\* a commit that leaves the ongoing cell set
putTokens_mut(stg, M, t) == putAll(stg, M, TransitionOf(stg, t).toPlaces)

\* Transition.putTokens
putTokens(stg, M, t) ==
    putAll(stg, [M EXCEPT !.ongoing[t] = FALSE], TransitionOf(stg, t).toPlaces)

\* a firing that forgets to take the tokens of the from-places
fire_mut(stg, M, t) == putAll(stg, M, TransitionOf(stg, t).toPlaces)

\* Transition.fire
fire(stg, M, t) ==
    putAll(stg, getAll(M, TransitionOf(stg, t).fromPlaces),
           TransitionOf(stg, t).toPlaces)

\* conditions whose racing test already answers to one completion
Guard_mut(stg, M, s) ==
    CASE s.op = "doneZero" -> TRUE
      [] s.op \in {"fireDummy", "reqRise", "reqFall", "reqToggle", "fireInput"}
            -> isEnabled(stg, M, s.t)
      [] s.op = "commit" -> isOnGoing(M, s.t)
      [] s.op = "chkNone" -> M.done = 0
      [] s.op = "chkMany" -> M.done >= 1

\* the condition of the If-statement
Guard(stg, M, s) ==
    CASE s.op = "doneZero" -> TRUE
      [] s.op \in {"fireDummy", "reqRise", "reqFall", "reqToggle", "fireInput"}
            -> isEnabled(stg, M, s.t)
      [] s.op = "commit" -> isOnGoing(M, s.t)
      [] s.op = "chkNone" -> M.done = 0
      [] s.op = "chkMany" -> M.done > 1

\* a statement that forgets self.done.eq(0)
doneEqZero_mut(M) == M

doneEqZero(M) == [M EXCEPT !.done = 0]

\* a completion that is recorded, not counted
doneInc_mut(M) == [M EXCEPT !.done = 1]

doneInc(M) == [M EXCEPT !.done = @ + 1]

\* a request that drives the pin high without looking at its level
ReqRise_mut(stg, M, s) ==
    doneEqZero([getTokens(stg, M, s.t) EXCEPT !.st[s.sig] = TRUE])

\* the request of a '+' transition
ReqRise(stg, M, s) ==
    LET M1 == getTokens(stg, M, s.t)
        M2 == IF M1.st[s.sig]
              THEN [M1 EXCEPT !.out = Append(@, Diag("conflict", s.t)),
                              !.errVar = TRUE]
              ELSE [M1 EXCEPT !.st[s.sig] = TRUE]
    IN doneEqZero(M2)

\* the request of a '-' transition
ReqFall(stg, M, s) ==
    LET M1 == getTokens(stg, M, s.t)
        M2 == IF M1.st[s.sig]
              THEN [M1 EXCEPT !.st[s.sig] = FALSE]
              ELSE [M1 EXCEPT !.out = Append(@, Diag("conflict", s.t)),
                              !.errVar = TRUE]
    IN doneEqZero(M2)

\* a toggle request that drives the pin high, as the request of a '+'
\* transition does
ReqToggle_mut(stg, M, s) == ReqRise(stg, M, s)

\* the request of a '~' transition
ReqToggle(stg, M, s) ==
    LET M1 == getTokens(stg, M, s.t)
    IN doneEqZero([M1 EXCEPT !.st[s.sig] = ~@])

\* the true branch of the If-statement
Body(stg, M, s) ==
    CASE s.op = "doneZero"  -> doneEqZero(M)
      [] s.op = "fireDummy" -> doneEqZero(fire(stg, M, s.t))
      [] s.op = "reqRise"   -> ReqRise(stg, M, s)
      [] s.op = "reqFall"   -> ReqFall(stg, M, s)
      [] s.op = "reqToggle" -> ReqToggle(stg, M, s)
      [] s.op = "commit"    -> doneInc(putTokens(stg, M, s.t))
      [] s.op = "fireInput" -> doneInc(fire(stg, M, s.t))
      [] s.op = "chkNone"   ->
            [M EXCEPT !.out = Append(@, Diag("none", s.sig)), !.errVar = TRUE]
      [] s.op = "chkMany"   ->
            [M EXCEPT !.out = Append(@, Diag("many", s.sig)), !.errVar = TRUE]

\* one emitted statement
Exec(stg, M, s) == IF Guard(stg, M, s) THEN Body(stg, M, s) ELSE M

\* self.rstAt, run while the reset input reads low: pin.write(Bool(par)),
\* var.eq(marking) of every place, var.eq(False) of every ongoing variable
RECURSIVE RunRstAt(_, _, _, _)
RunRstAt(stg, M, par, k) ==
    IF k > Len(stg.rstAt) THEN M
    ELSE LET a == stg.rstAt[k] IN
         RunRstAt(stg,
            CASE a.kind = "pin" -> [M EXCEPT !.st[a.name] = par[a.name]]
              [] a.kind = "place" ->
                   [M EXCEPT !.tokens[a.name] = PlaceOf(stg, a.name).marking]
              [] a.kind = "ongoing" -> [M EXCEPT !.ongoing[a.name] = FALSE],
            par, k + 1)

(***************************************************************************)
(* The standalone script src/stgToVerilogA.py: the same builder and the    *)
(* same statement lists, but it has no STG_ERROR variable and every        *)
(* diagnostic of the model it generates is Fatal(...), which ends the      *)
(* simulation.  Its reset sequence is the body of                          *)
(* At(Above(0.05 + rst.diffHalfDomain)): it runs when the reset input      *)
(* rises; its handlers and its loop are guarded by rst.read() alone.       *)
(***************************************************************************)
\* for sigType in ["input", "output", "internal", "dummy"]
SigTypesScript == <<"input", "output", "internal", "dummy">>

RECURSIVE ReadSignalsScript(_, _, _, _)
\* "Read all signals" of the script and the assert that follows it
ReadSignalsScript(stg, ast, sigMap, k) ==
    IF k > Len(SigTypesScript)
    THEN IF stg.error = "" /\ Len(stg.signals) = 0
         THEN Fail(stg, "There is no input or output signals")
         ELSE stg
    ELSE LET sigType == SigTypesScript[k]
             next == IF sigType \in ast.keys
                     THEN ReadSignalList(stg, EffKind(sigMap, sigType),
                                         Flatten(ast[sigType]))
                     ELSE stg
         IN ReadSignalsScript(next, ast, sigMap, k + 1)

\* STG.__init__ of the script up to "build stg"
BuildScript(ast, sigMap) ==
    ReadGraph(
      ReadMarkings(
        ReadCapacity(ReadSignalsScript(NewSTG, ast, sigMap, 1), ast), ast), ast)

\* the statement of the script that stands where the package emits s: the
\* requests of '+' and '-' and the two checks carry Fatal(...) in place of
\* Strobe(...), errVar.eq(True)
StmtScript(s) ==
    [s EXCEPT !.op = CASE s.op = "reqRise" -> "reqRiseFatal"
                       [] s.op = "reqFall" -> "reqFallFatal"
                       [] s.op = "chkNone" -> "chkNoneFatal"
                       [] s.op = "chkMany" -> "chkManyFatal"
                       [] OTHER -> s.op]

ListScript(code) == [i \in 1..Len(code) |-> StmtScript(code[i])]

\* "build stg" of the script
EmitScript(stg) ==
    LET m == Emit(stg) IN
    IF m.error # "" THEN m
    ELSE [error |-> "",
          cmdOut |-> ListScript(m.cmdOut),
          sigIfRising  |-> [i \in 1..Len(m.sigIfRising) |->
                              ListScript(m.sigIfRising[i])],
          sigIfFalling |-> [i \in 1..Len(m.sigIfFalling) |->
                              ListScript(m.sigIfFalling[i])]]

\* $fatal has ended the simulation: nothing after it is executed
Halted(M) == M.out # <<>>

\* Place.putToken of the script
putTokenScript(stg, M, p) ==
    LET M1 == [M EXCEPT !.tokens[p] = @ + 1] IN
    IF M1.tokens[p] > PlaceOf(stg, p).capacity
    THEN [M1 EXCEPT !.out = Append(@, Diag("capacity", p))]
    ELSE M1

RECURSIVE putAllScript(_, _, _)
putAllScript(stg, M, to) ==
    IF Len(to) = 0 \/ Halted(M) THEN M
    ELSE putAllScript(stg, putTokenScript(stg, M, Head(to)), Tail(to))

\* Transition.putTokens of the script
putTokensScript(stg, M, t) ==
    putAllScript(stg, [M EXCEPT !.ongoing[t] = FALSE],
                 TransitionOf(stg, t).toPlaces)

\* Transition.fire of the script
fireScript(stg, M, t) ==
    putAllScript(stg, getAll(M, TransitionOf(stg, t).fromPlaces),
                 TransitionOf(stg, t).toPlaces)

\* self.done.eq(0) and self.done.inc() after a command of the statement,
\* unless the command was fatal
ThenZero(M) == IF Halted(M) THEN M ELSE doneEqZero(M)

ThenInc(M) == IF Halted(M) THEN M ELSE doneInc(M)

GuardScript(stg, M, s) ==
    CASE s.op \in {"reqRiseFatal", "reqFallFatal"} -> isEnabled(stg, M, s.t)
      [] s.op = "chkNoneFatal" -> M.done = 0
      [] s.op = "chkManyFatal" -> M.done > 1
      [] OTHER -> Guard(stg, M, s)

\* the true branch of the If-statement of the script
BodyScript(stg, M, s) ==
    CASE s.op = "doneZero"  -> doneEqZero(M)
      [] s.op = "fireDummy" -> ThenZero(fireScript(stg, M, s.t))
      [] s.op = "reqRiseFatal" ->
            LET M1 == getTokens(stg, M, s.t) IN
            IF M1.st[s.sig]
            THEN [M1 EXCEPT !.out = Append(@, Diag("conflict", s.t))]
            ELSE doneEqZero([M1 EXCEPT !.st[s.sig] = TRUE])
      [] s.op = "reqFallFatal" ->
            LET M1 == getTokens(stg, M, s.t) IN
            IF M1.st[s.sig]
            THEN doneEqZero([M1 EXCEPT !.st[s.sig] = FALSE])
            ELSE [M1 EXCEPT !.out = Append(@, Diag("conflict", s.t))]
      [] s.op = "reqToggle" -> ReqToggle(stg, M, s)
      [] s.op = "commit"    -> ThenInc(putTokensScript(stg, M, s.t))
      [] s.op = "fireInput" -> ThenInc(fireScript(stg, M, s.t))
      [] s.op = "chkNoneFatal" ->
            [M EXCEPT !.out = Append(@, Diag("none", s.sig))]
      [] s.op = "chkManyFatal" ->
            [M EXCEPT !.out = Append(@, Diag("many", s.sig))]

\* one emitted statement of the script
ExecScript(stg, M, s) ==
    IF GuardScript(stg, M, s) THEN BodyScript(stg, M, s) ELSE M

(***************************************************************************)
(* The nets explored: abstract syntax trees as the parser hands them to    *)
(* STG.__init__ (keys holds the sections present), and the remapping       *)
(* tables cli passes.                                                      *)
(***************************************************************************)
nA  == <<"a">>
nI  == <<"i">>
nD  == <<"d">>
nD1 == <<"d", "1">>
nD2 == <<"d", "2">>
nD3 == <<"d", "3">>
nDs1 == <<"d", "/", "1">>
nDs2 == <<"d", "/", "2">>
nDs3 == <<"d", "/", "3">>
nP  == <<"p">>
nQ  == <<"q">>
nP1 == <<"p", "1">>
Ap  == <<"a", "+">>
Am  == <<"a", "-">>
At_ == <<"a", "~">>
Ap1 == <<"a", "+", "/", "1">>
Ip  == <<"i", "+">>
Im  == <<"i", "-">>
It_ == <<"i", "~">>
Ip1 == <<"i", "+", "/", "1">>
Imp(a, b) == a \o Str(",") \o b

Ast(keys, output, input, dummy, graph, marking, capacity) ==
    [keys |-> keys, output |-> <<output>>, input |-> <<input>>,
     internal |-> <<>>, dummy |-> <<dummy>>, graph |-> <<graph>>,
     marking |-> <<marking>>, capacity |-> <<capacity>>]

\* four-phase handshake: i+ -> a+ -> i- -> a- -> i+
AstHandshake ==
    Ast({"output", "input", "graph", "marking"}, <<nA>>, <<nI>>, <<>>,
        << <<Ip, Ap>>, <<Ap, Im>>, <<Im, Am>>, <<Am, Ip>> >>,
        << <<Imp(Am, Ip)>> >>, <<>>)

\* two transitions a+ and a+/1 of the same edge enabled by one event
AstRace ==
    Ast({"output", "input", "graph", "marking", "capacity"},
        <<nA>>, <<nI>>, <<>>,
        << <<Ip, Ap, Ap1>>, <<Ap, nP>>, <<Ap1, nP>>, <<nP, Im>>,
           <<Im, Am>>, <<Am, Ip>> >>,
        << <<Imp(Am, Ip)>> >>, << <<nP, <<"2">> >> >>)

\* a chain of dummies declared in the reverse of their firing order
AstChain ==
    Ast({"input", "dummy", "graph", "marking"}, <<>>, <<nI>>,
        <<nD3, nD2, nD1>>,
        << <<Ip, nD1>>, <<nD1, nD2>>, <<nD2, nD3>>, <<nD3, Im>>, <<Im, Ip>> >>,
        << <<Imp(Im, Ip)>> >>, <<>>)

\* the same chain, declared in its firing order
AstChainFwd ==
    Ast({"input", "dummy", "graph", "marking"}, <<>>, <<nI>>,
        <<nD1, nD2, nD3>>,
        << <<Ip, nD1>>, <<nD1, nD2>>, <<nD2, nD3>>, <<nD3, Im>>, <<Im, Ip>> >>,
        << <<Imp(Im, Ip)>> >>, <<>>)

\* the same chain, declared d2, d3, d1
AstChainMid ==
    Ast({"input", "dummy", "graph", "marking"}, <<>>, <<nI>>,
        <<nD2, nD3, nD1>>,
        << <<Ip, nD1>>, <<nD1, nD2>>, <<nD2, nD3>>, <<nD3, Im>>, <<Im, Ip>> >>,
        << <<Imp(Im, Ip)>> >>, <<>>)

\* a chain of three transitions d/1 -> d/2 -> d/3 of one dummy d, first
\* referenced in the graph in the reverse of their firing order
AstChainOne ==
    Ast({"input", "dummy", "graph", "marking"}, <<>>, <<nI>>, <<nD>>,
        << <<nDs3, Im>>, <<nDs2, nDs3>>, <<nDs1, nDs2>>, <<Ip, nDs1>>,
           <<Im, Ip>> >>,
        << <<Imp(Im, Ip)>> >>, <<>>)

\* a dummy that re-enables itself
AstSelfLoop ==
    Ast({"input", "dummy", "graph", "marking"}, <<>>, <<nI>>, <<nD>>,
        << <<nP, nD>>, <<nD, nP>>, <<Ip, nQ>> >>,
        << <<nP>> >>, <<>>)

\* a dummy that re-enables itself through the implicit place "d,d"
AstSelfLoopImp ==
    Ast({"input", "dummy", "graph", "marking"}, <<>>, <<nI>>, <<nD>>,
        << <<nD, nD>>, <<Ip, nQ>> >>,
        << <<Imp(nD, nD)>> >>, <<>>)

\* a dummy that moves CascadeCap - 1 tokens, one per pass
AstDrain499 ==
    Ast({"input", "dummy", "graph", "marking", "capacity"}, <<>>, <<nI>>, <<nD>>,
        << <<nP, nD>>, <<nD, nQ>>, <<Ip, nP1>> >>,
        << <<nP, <<"4", "9", "9">> >> >>,
        << <<nP, <<"5", "0", "0">> >>, <<nQ, <<"5", "0", "0">> >> >>)

\* a dummy that moves CascadeCap tokens, one per pass
AstDrain500 ==
    Ast({"input", "dummy", "graph", "marking", "capacity"}, <<>>, <<nI>>, <<nD>>,
        << <<nP, nD>>, <<nD, nQ>>, <<Ip, nP1>> >>,
        << <<nP, <<"5", "0", "0">> >> >>,
        << <<nP, <<"5", "0", "0">> >>, <<nQ, <<"5", "0", "0">> >> >>)

\* marking p1 = 2, capacity p1 = 2, filled by i+ and emptied by i-
AstCapacity ==
    Ast({"input", "graph", "marking", "capacity"}, <<>>, <<nI>>, <<>>,
        << <<Ip, nP1>>, <<nP1, Im>> >>,
        << <<nP1, <<"2">> >> >>, << <<nP1, <<"2">> >> >>)

\* toggle transitions of an output and of an input
AstToggle ==
    Ast({"output", "input", "graph", "marking"}, <<nA>>, <<nI>>, <<>>,
        << <<It_, At_>>, <<At_, It_>> >>,
        << <<Imp(At_, It_)>> >>, <<>>)

\* two dummies competing for the token of one place
AstChoice ==
    Ast({"input", "dummy", "graph"}, <<>>, <<nI>>, <<nD1, nD2>>,
        << <<Ip, nP>>, <<nP, nD1, nD2>>, <<nD1, nQ>>, <<nD2, nQ>>,
           <<nQ, Im>> >>,
        <<>>, <<>>)

\* an output whose commit fills a place that is already full
AstOverflow ==
    Ast({"output", "input", "graph", "marking"}, <<nA>>, <<nI>>, <<>>,
        << <<Ip, Ap>>, <<Ap, nP>>, <<nP, Im>> >>,
        << <<nP>> >>, <<>>)

\* two transitions a+ and a+/1 that share the one token of place p
AstShared ==
    Ast({"output", "input", "graph"}, <<nA>>, <<nI>>, <<>>,
        << <<Ip, nP>>, <<nP, Ap, Ap1>>, <<Ap, nQ>>, <<Ap1, nQ>>, <<nQ, Im>> >>,
        <<>>, <<>>)

\* an output whose commit feeds a dummy and a request of the same instant:
\* i+ -> a+ -> (d, a-) -> i- -> i+
AstCommitFeeds ==
    Ast({"output", "input", "dummy", "graph", "marking"}, <<nA>>, <<nI>>,
        <<nD>>,
        << <<Ip, Ap>>, <<Ap, nD, Am>>, <<nD, Im>>, <<Am, Im>>, <<Im, Ip>> >>,
        << <<Imp(Im, Ip)>> >>, <<>>)

\* a net in which the arc p -> i- is listed twice
AstTwice ==
    Ast({"input", "graph", "marking"}, <<>>, <<nI>>, <<>>,
        << <<Ip, nP>>, <<nP, Im>>, <<nP, Im>>, <<Im, Ip>> >>,
        << <<Imp(Im, Ip)>> >>, <<>>)

\* two transitions i+ and i+/1 of an input, both enabled after reset
AstInputRace ==
    Ast({"input", "graph", "marking", "capacity"}, <<>>, <<nI>>, <<>>,
        << <<nP, Ip>>, <<nQ, Ip1>>, <<Ip, nP1>>, <<Ip1, nP1>> >>,
        << <<nP>>, <<nQ>> >>, << <<nP1, <<"2">> >> >>)

\* a dummy without from-place
AstSourceDummy ==
    Ast({"input", "dummy", "graph"}, <<>>, <<nI>>, <<nD>>,
        << <<nD, nP>>, <<nP, Ip>> >>, <<>>, <<>>)

\* a transition of an output without from-place
AstSourceOut ==
    Ast({"output", "input", "graph"}, <<nA>>, <<nI>>, <<>>,
        << <<Ap, nP>>, <<nP, Ip>> >>, <<>>, <<>>)

Asts == {AstHandshake, AstRace, AstChain, AstChainFwd, AstChainMid,
         AstChainOne, AstSelfLoop, AstSelfLoopImp, AstDrain499, AstDrain500,
         AstCapacity, AstToggle, AstChoice, AstOverflow, AstShared,
         AstCommitFeeds, AstTwice, AstInputRace, AstSourceDummy,
         AstSourceOut}

\* cli: mapping without -seeInternals and -allInputs
SigMapDefault ==
    [input |-> "input", output |-> "output", internal |-> "internal"]

SigMaps == {SigMapDefault}

(***************************************************************************)
(* The generated model as a state machine.                                 *)
(***************************************************************************)
VARIABLES
    stg,      \* the completed net (read-only after the build)
    mod,      \* the emitted statement lists (Emit)
    par,      \* <signal>_RST_VALUE_PAR of every DigOut signal
    tokens, ongoing, st, errVar, done, out,   \* the machine state (see Exec)
    iter,     \* _$counter
    rst,      \* level read on the reset input
    pin,      \* level of every signal pin, as seen by the Cross detectors
    pc,       \* "idle", "handler", "next", "cascade", "while", "body", "cap",
              \* "fatal";
              \* during the build: the section STG.__init__ is at
    blk,      \* the handler being run: <<"rising" or "falling", signal index>>,
              \* followed by the handlers of the same time point still to run
    ip,       \* index of the next statement of the handler or of cmdOut
    entry,    \* history: the machine state when the handler or pass began
    nfired,   \* history: transition statements of the handler or pass so far
              \* whose condition held
    last,     \* history: the statement executed by the last step
    race,     \* history of the requests (see Requested)
    bld       \* the build: its inputs, its work lists and its history

vars == <<stg, mod, par, tokens, ongoing, st, errVar, done, out, iter, rst,
          pin, pc, blk, ip, entry, nfired, last, race, bld>>

Mach == [tokens |-> tokens, ongoing |-> ongoing, st |-> st,
         errVar |-> errVar, done |-> done, out |-> out]

\* the machine state after a step is M
SetMach(M) ==
    /\ tokens' = M.tokens
    /\ ongoing' = M.ongoing
    /\ st' = M.st
    /\ errVar' = M.errVar
    /\ done' = M.done
    /\ out' = M.out

Quiet(M) == [M EXCEPT !.out = <<>>]

NoStmt == [op |-> "none", t |-> <<>>, sig |-> <<>>, took |-> FALSE]

(***************************************************************************)
(* History of the requests, kept for the properties about races:           *)
(*   now        transitions requested in the current cascade evaluation    *)
(*   contested  transitions at whose latest request another transition of  *)
(*              the same signal and edge was enabled together with them    *)
(*              when the pass began                                        *)
(*   together   transitions whose latest request was made in a cascade     *)
(*              evaluation that also requested another transition of the   *)
(*              same signal and edge                                       *)
(***************************************************************************)
NoRace == [now |-> {}, contested |-> {}, together |-> {}]

\* the record of a build that is over
NoBuild == [ast |-> <<>>, sigMap |-> <<>>, arrows |-> <<>>, todo |-> <<>>,
            from |-> <<>>, seen |-> {}, step |-> <<>>, file |-> "written"]

\* u is another transition of the signal and edge of t
Rival(g, t, u) ==
    /\ u # t
    /\ g.transitions[TransIdx(g, u)].signame = g.transitions[TransIdx(g, t)].signame
    /\ g.transitions[TransIdx(g, u)].edge = g.transitions[TransIdx(g, t)].edge

\* the history after the request of t in a pass that began in state E
Requested(g, E, R, t) ==
    LET rivals == {u \in TransitionNames(g) : Rival(g, t, u)} IN
    [now |-> R.now \cup {t},
     contested |->
        IF isEnabled(g, E, t) /\ \E u \in rivals : isEnabled(g, E, u)
        THEN R.contested \cup {t} ELSE R.contested \ {t},
     together |->
        IF R.now \cap rivals # {}
        THEN R.together \cup {t} \cup (R.now \cap rivals)
        ELSE R.together \ {t}]

OutSignals(g) ==
    {g.signals[i].name : i \in {j \in 1..Len(g.signals) :
                                  g.signals[j].dir # "input"}}

VarTransitions(g) ==
    {g.transitions[i].name : i \in {j \in 1..Len(g.transitions) :
                                      g.transitions[j].var}}

\* mod.var(value = ...) of every variable; pins at their reset value
Init ==
    /\ \E ast \in Asts, sigMap \in SigMaps : stg = Build(ast, sigMap)
    /\ mod = Emit(stg)
    /\ mod.error = ""
    /\ par \in [OutSignals(stg) -> BOOLEAN]
    /\ tokens = [p \in PlaceNames(stg) |-> PlaceOf(stg, p).marking]
    /\ ongoing = [t \in VarTransitions(stg) |-> FALSE]
    /\ st = par
    /\ errVar = FALSE
    /\ done = 0
    /\ iter = 0
    /\ out = <<>>
    /\ rst \in BOOLEAN
    /\ pin = [s \in SignalNames(stg) |->
                IF s \in OutSignals(stg) THEN par[s] ELSE FALSE]
    /\ pc = "idle"
    /\ blk = <<>>
    /\ ip = 0
    /\ entry = Mach
    /\ nfired = 0
    /\ last = NoStmt
    /\ race = NoRace
    /\ bld = NoBuild

\* Branch(self.vdd, self.gnd).v > 0.05: the supply is up
SupplyOn == TRUE

\* a guard that does not read the reset input
Released_mut(r) == SupplyOn

\* self.rst.read() & (Branch(self.vdd, self.gnd).v > 0.05)
Released(r) == r /\ SupplyOn

\* a reset block that also clears STG_ERROR
ResetBlock_mut(M, r) ==
    IF ~r THEN [RunRstAt(stg, M, par, 1) EXCEPT !.errVar = FALSE] ELSE M

\* If(~self.rst.read())(self.rstAt): first block of every time point
ResetBlock(M, r) == IF ~r THEN RunRstAt(stg, M, par, 1) ELSE M

\* the exploration offers a new event only while the places are not over-full
Bounded == \A p \in PlaceNames(stg) :
              tokens[p] <= PlaceOf(stg, p).marking + MaxExtra

Static == UNCHANGED <<stg, mod, par, bld>>

\* At(Cross(self.rst.diffHalfDomain, "both"))(): the reset input crosses
ResetCross ==
    /\ pc = "idle" /\ Bounded
    /\ rst' = ~rst
    /\ SetMach(ResetBlock(Quiet(Mach), rst'))
    /\ pc' = "cascade"
    /\ last' = NoStmt
    /\ race' = IF rst' THEN race ELSE NoRace
    /\ Static /\ UNCHANGED <<iter, pin, blk, ip, entry, nfired>>

\* a time point at which no detector triggers
Tick ==
    /\ pc = "idle" /\ Bounded
    /\ SetMach(ResetBlock(Quiet(Mach), rst))
    /\ pc' = "cascade"
    /\ last' = NoStmt
    /\ race' = IF rst THEN race ELSE NoRace
    /\ Static /\ UNCHANGED <<iter, rst, pin, blk, ip, entry, nfired>>

\* At(Cross(signalObj.diffHalfDomain, "rising" / "falling")): the pin of
\* signal k crosses; the handler body is guarded by Released
EdgeCross(k) ==
    /\ pc = "idle" /\ Bounded
    /\ LET s == stg.signals[k].name
           M == ResetBlock(Quiet(Mach), rst)
       IN /\ pin' = [pin EXCEPT ![s] = ~@]
          /\ SetMach(M)
          /\ IF Released(rst)
             THEN /\ pc' = "handler"
                  /\ blk' = <<IF pin[s] THEN "falling" ELSE "rising", k>>
                  /\ ip' = 1
                  /\ entry' = M
                  /\ nfired' = 0
             ELSE /\ pc' = "cascade"
                  /\ UNCHANGED <<blk, ip, entry, nfired>>
    /\ last' = NoStmt
    /\ race' = IF rst THEN race ELSE NoRace
    /\ Static /\ UNCHANGED <<iter, rst>>

\* the pins of signals k and j (k before j in self.signals) cross at the
\* same time point: the event blocks run in the order of the analog block,
\* the handler of k first
EdgesCross(k, j) ==
    /\ pc = "idle" /\ Bounded
    /\ k < j
    /\ LET s == stg.signals[k].name
           u == stg.signals[j].name
           M == ResetBlock(Quiet(Mach), rst)
       IN /\ pin' = [pin EXCEPT ![s] = ~@, ![u] = ~@]
          /\ SetMach(M)
          /\ IF Released(rst)
             THEN /\ pc' = "handler"
                  /\ blk' = <<IF pin[s] THEN "falling" ELSE "rising", k,
                              IF pin[u] THEN "falling" ELSE "rising", j>>
                  /\ ip' = 1
                  /\ entry' = M
                  /\ nfired' = 0
             ELSE /\ pc' = "cascade"
                  /\ UNCHANGED <<blk, ip, entry, nfired>>
    /\ last' = NoStmt
    /\ race' = IF rst THEN race ELSE NoRace
    /\ Static /\ UNCHANGED <<iter, rst>>

HandlerCode ==
    IF blk[1] = "rising" THEN mod.sigIfRising[blk[2]]
    ELSE mod.sigIfFalling[blk[2]]

\* the effect of statement s on the machine state and on the history
Step(s) ==
    LET took == Guard(stg, Mach, s) IN
    /\ SetMach(Exec(stg, Quiet(Mach), s))
    /\ last' = [op |-> s.op, t |-> s.t, sig |-> s.sig, took |-> took]
    /\ nfired' = IF took /\ s.t # <<>> THEN nfired + 1 ELSE nfired
    /\ race' = IF took /\ s.op \in {"reqRise", "reqFall", "reqToggle"}
               THEN Requested(stg, entry, race, s.t) ELSE race

\* a handler after which the time point is over
HandlerStep_mut ==
    /\ pc = "handler"
    /\ Step(HandlerCode[ip])
    /\ IF ip < Len(HandlerCode)
       THEN ip' = ip + 1 /\ pc' = pc
       ELSE ip' = 0 /\ pc' = "idle"
    /\ Static /\ UNCHANGED <<iter, rst, pin, blk, entry>>

\* one statement of sigIfRising / sigIfFalling
HandlerStep ==
    /\ pc = "handler"
    /\ Step(HandlerCode[ip])
    /\ IF ip < Len(HandlerCode)
       THEN ip' = ip + 1 /\ pc' = pc
       ELSE ip' = 0 /\ pc' = IF Len(blk) > 2 THEN "next" ELSE "cascade"
    /\ Static /\ UNCHANGED <<iter, rst, pin, blk, entry>>

\* the event block of the next signal that crossed at this time point
NextHandler ==
    /\ pc = "next"
    /\ pc' = "handler"
    /\ blk' = SubSeq(blk, 3, Len(blk))
    /\ ip' = 1
    /\ entry' = Quiet(Mach)
    /\ nfired' = 0
    /\ out' = <<>>
    /\ last' = NoStmt
    /\ Static
    /\ UNCHANGED <<tokens, ongoing, st, errVar, done, iter, rst, pin, race>>

\* "if len(cmdOut) > 0": If(Released)(done.eq(0), iter.eq(0), While ...)
CascadeEntry ==
    /\ pc = "cascade"
    /\ IF Len(mod.cmdOut) > 0 /\ Released(rst)
       THEN /\ done' = 0
            /\ iter' = 0
            /\ pc' = "while"
       ELSE /\ pc' = "idle"
            /\ UNCHANGED <<done, iter>>
    /\ out' = <<>>
    /\ last' = NoStmt
    /\ race' = [race EXCEPT !.now = {}]
    /\ Static
    /\ UNCHANGED <<tokens, ongoing, st, errVar, rst, pin, blk, ip, entry,
                   nfired>>

\* While(~Bool(self.done))(self.iter.inc(), self.done.eq(1), ...)
WhileTest ==
    /\ pc = "while"
    /\ IF done = 0
       THEN /\ iter' = iter + 1
            /\ done' = 1
            /\ pc' = "body"
            /\ ip' = 1
            /\ entry' = [Mach EXCEPT !.done = 1, !.out = <<>>]
            /\ nfired' = 0
       ELSE /\ pc' = "idle"
            /\ UNCHANGED <<iter, done, ip, entry, nfired>>
    /\ out' = <<>>
    /\ last' = NoStmt
    /\ Static
    /\ UNCHANGED <<tokens, ongoing, st, errVar, rst, pin, blk, race>>

\* one statement of cmdOut
BodyStep ==
    /\ pc = "body"
    /\ Step(mod.cmdOut[ip])
    /\ IF ip < Len(mod.cmdOut)
       THEN ip' = ip + 1 /\ pc' = pc
       ELSE ip' = 0 /\ pc' = "cap"
    /\ Static /\ UNCHANGED <<iter, rst, pin, blk, entry>>

\* a loop without the cap
CapCheck_mut ==
    /\ pc = "cap"
    /\ pc' = "while" /\ out' = <<>>
    /\ last' = NoStmt
    /\ Static
    /\ UNCHANGED <<tokens, ongoing, st, errVar, done, iter, rst, pin, blk,
                   ip, entry, nfired, race>>

\* a cap that already stops the 500th pass
CapCheck_early ==
    /\ pc = "cap"
    /\ IF iter >= CascadeCap
       THEN pc' = "fatal" /\ out' = <<Diag("fatal", <<>>)>>
       ELSE pc' = "while" /\ out' = <<>>
    /\ last' = NoStmt
    /\ Static
    /\ UNCHANGED <<tokens, ongoing, st, errVar, done, iter, rst, pin, blk,
                   ip, entry, nfired, race>>

\* If(self.iter > 500)(Fatal(...)): $fatal ends the simulation
CapCheck ==
    /\ pc = "cap"
    /\ IF iter > CascadeCap
       THEN pc' = "fatal" /\ out' = <<Diag("fatal", <<>>)>>
       ELSE pc' = "while" /\ out' = <<>>
    /\ last' = NoStmt
    /\ Static
    /\ UNCHANGED <<tokens, ongoing, st, errVar, done, iter, rst, pin, blk,
                   ip, entry, nfired, race>>

Next ==
    \/ ResetCross
    \/ Tick
    \/ \E k \in 1..Len(stg.signals) : EdgeCross(k)
    \/ \E k, j \in 1..Len(stg.signals) : EdgesCross(k, j)
    \/ HandlerStep
    \/ NextHandler
    \/ CascadeEntry
    \/ WhileTest
    \/ BodyStep
    \/ CapCheck

Spec == Init /\ [][Next]_vars

\* the statements of one analog evaluation run to its end: once a time
\* point has begun, the simulator executes the handler and the loop
FairSpec ==
    /\ Spec
    /\ WF_vars(HandlerStep) /\ WF_vars(NextHandler)
    /\ WF_vars(CascadeEntry) /\ WF_vars(WhileTest)
    /\ WF_vars(BodyStep) /\ WF_vars(CapCheck)

(***************************************************************************)
(* The build as a state machine: STG.__init__ section by section, the      *)
(* graph one token at a time, then cli writing the output file.  stg is    *)
(* the net under construction and pc the section to run next:              *)
(*   "signals", "capacity", "marking", "graph"   the sections              *)
(*   "from"    resolve the first token of the next arrow                   *)
(*   "to"      resolve the next token of the arrow and connect it          *)
(*   "emit"    "build stg"                                                 *)
(*   "done"    STG(...) has returned                                       *)
(*   "failed"  an exception left STG.__init__; cli re-raises it            *)
(*   "exit"    cli has written the file                                    *)
(* bld holds the arguments (ast, sigMap), the arrows and tokens still to   *)
(* read, the resolution of the arrow's first token, and as history the     *)
(* tokens resolved so far (seen) and the last step with the net before it. *)
(***************************************************************************)
nX == <<"x">>
Xp == <<"x", "+">>
Xm == <<"x", "-">>
ApB == <<"a", "+", "b">>
App == <<"a", "+", "+">>

Decl(output, input, internal, dummy) ==
    [output |-> output, input |-> input, internal |-> internal,
     dummy |-> dummy]

\* the declarations explored: the sections .outputs, .inputs, .internal,
\* .dummy (<<>>: section absent)
DeclOpts ==
    {Decl(<<nA>>, <<nI>>, <<>>, <<>>),
     Decl(<<nA>>, <<nI>>, <<nX>>, <<>>),
     Decl(<<nA>>, <<nI>>, <<>>, <<nD>>),
     Decl(<<nA>>, <<nI>>, <<nX>>, <<nD>>),
     Decl(<<>>, <<nI>>, <<nX>>, <<nD>>),
     Decl(<<nA, nA>>, <<nI>>, <<>>, <<>>),
     Decl(<<nA>>, <<nI, nA>>, <<>>, <<>>),
     Decl(<<nA>>, <<nI>>, <<>>, <<nD, nD>>),
     Decl(<<nA>>, <<nI>>, <<nX, nX>>, <<>>),
     Decl(<<nA>>, <<nI>>, <<>>, <<nA>>),
     Decl(<<nA>>, <<nI>>, <<nX>>, <<nX>>),
     Decl(<<nA>>, <<nI>>, <<nI>>, <<>>),
     Decl(<<>>, <<>>, <<>>, <<>>),
     Decl(<<>>, <<>>, <<>>, <<nD>>),
     Decl(<<>>, <<>>, <<nX>>, <<nD>>),
     Decl(<<nA>>, <<>>, <<>>, <<>>)}

\* the .graph sections explored (present = FALSE: no section)
Graph(present, lines) == [present |-> present, lines |-> lines]

GraphOpts ==
    {Graph(FALSE, <<>>),
     Graph(TRUE, <<>>),
     Graph(TRUE, << <<nP>>, <<Ap>> >>),
     Graph(TRUE, << <<Ip, nP>>, <<nP, nQ>> >>),
     Graph(TRUE, << <<Ip, Ap>>, <<Ap, Im>>, <<Im, Am>>, <<Am, Ip>> >>),
     Graph(TRUE, << <<Ip, nP>>, <<nP, Xp, nD>>, <<Xp, Ap>>, <<nD, Ap>>,
                    <<Ap, nQ>>, <<nQ, Im>> >>),
     Graph(TRUE, << <<Ap, Ip>>, <<Ip, Am, Xm>>, <<Ap, Ip>>, <<Xm, nD>>,
                    <<nD, Ap>> >>),
     Graph(TRUE, << <<nA, nP>>, <<nP, Ip>> >>),
     Graph(TRUE, << <<Ip, ApB, App>>, <<ApB, Im>>, <<App, Im>> >>),
     Graph(TRUE, << <<Ip, nP, nP>>, <<nP, Am>>, <<nP, Am>>, <<Am, Ip>> >>)}

\* the .marking and .capacity sections explored
Over(marking, capacity) == [marking |-> marking, capacity |-> capacity]

OverOpts ==
    {Over(<<>>, <<>>),
     Over(<< <<Imp(Am, Ip)>>, <<nQ, <<"2">> >> >>, << <<nP, <<"2">> >> >>),
     Over(<< <<nP, <<"1">> >>, <<nP, <<"2">> >> >>, <<>>),
     Over(<< <<nP>> >>, << <<nP, <<"2">> >>, <<nQ, <<"3">> >>,
                           <<nP, <<"3">> >> >>),
     Over(<< <<Imp(Ip, Ap), <<"2">> >>, <<Imp(Ap, Ip), <<"0">> >> >>,
          << <<Imp(Ip, Ap), <<"3">> >>, <<Imp(Xm, nD), <<"0">> >> >>),
     Over(<<>>, << <<nP>> >>)}

\* the parse result handed to STG.__init__
AstOf(d, g, o) ==
    [keys |-> (IF d.output # <<>> THEN {"output"} ELSE {})
              \cup (IF d.input # <<>> THEN {"input"} ELSE {})
              \cup (IF d.internal # <<>> THEN {"internal"} ELSE {})
              \cup (IF d.dummy # <<>> THEN {"dummy"} ELSE {})
              \cup (IF g.present THEN {"graph"} ELSE {})
              \cup (IF o.marking # <<>> THEN {"marking"} ELSE {})
              \cup (IF o.capacity # <<>> THEN {"capacity"} ELSE {}),
     output |-> <<d.output>>, input |-> <<d.input>>,
     internal |-> <<d.internal>>, dummy |-> <<d.dummy>>,
     graph |-> <<g.lines>>, marking |-> <<o.marking>>,
     capacity |-> <<o.capacity>>]

\* cli: -seeInternals
SigMapSeeInt ==
    [input |-> "input", output |-> "output", internal |-> "output"]

\* cli: -seeInternals -allInputs
SigMapSeeIntAllInp ==
    [input |-> "input", output |-> "input", internal |-> "input"]

\* cli: -allInputs
SigMapAllInp ==
    [input |-> "input", output |-> "input", internal |-> "internal"]

BuildSigMaps ==
    {SigMapDefault, SigMapSeeInt, SigMapSeeIntAllInp, SigMapAllInp}

\* nothing has been emitted
NoModule == [error |-> "not built"]

NoStep == [op |-> "none", from |-> <<>>, to |-> <<>>, fromCls |-> "none",
           toCls |-> "none", prev |-> NewSTG]

\* the generated model does not run during the build
Dormant ==
    UNCHANGED <<par, tokens, ongoing, st, errVar, done, out, iter, rst, pin,
                blk, ip, entry, nfired, last, race>>

BuildInit ==
    /\ \E d \in DeclOpts, g \in GraphOpts, o \in OverOpts,
          m \in BuildSigMaps :
          bld = [ast |-> AstOf(d, g, o), sigMap |-> m, arrows |-> <<>>,
                 todo |-> <<>>, from |-> <<>>, seen |-> {}, step |-> NoStep,
                 file |-> "untouched"]
    /\ stg = NewSTG
    /\ mod = NoModule
    /\ pc = "signals"
    /\ par = EmptyMap /\ tokens = EmptyMap /\ ongoing = EmptyMap
    /\ st = EmptyMap /\ pin = EmptyMap
    /\ errVar = FALSE /\ done = 0 /\ out = <<>> /\ iter = 0 /\ rst = FALSE
    /\ blk = <<>> /\ ip = 0 /\ nfired = 0 /\ last = NoStmt /\ race = NoRace
    /\ entry = Mach

\* the section after the one that left the net n
After(n, section) == IF n.error # "" THEN "failed" ELSE section

\* the history of a step that resolved no token
Section(op) == [NoStep EXCEPT !.op = op, !.prev = stg]

\* "Read all signals" and the assert on len(self.signals)
BuildSignals ==
    /\ pc = "signals"
    /\ stg' = ReadSignals(stg, bld.ast, bld.sigMap, 1)
    /\ pc' = After(stg', "capacity")
    /\ bld' = [bld EXCEPT !.step = Section("signals")]
    /\ UNCHANGED mod /\ Dormant

\* "Read capacity"
BuildCapacity ==
    /\ pc = "capacity"
    /\ stg' = ReadCapacity(stg, bld.ast)
    /\ pc' = After(stg', "marking")
    /\ bld' = [bld EXCEPT !.step = Section("capacity")]
    /\ UNCHANGED mod /\ Dormant

\* "Read markings"
BuildMarkings ==
    /\ pc = "marking"
    /\ stg' = ReadMarkings(stg, bld.ast)
    /\ pc' = After(stg', "graph")
    /\ bld' = [bld EXCEPT !.step = Section("marking")]
    /\ UNCHANGED mod /\ Dormant

\* "Read Graph": the two asserts and arrows = arrows + arrowList
BuildGraph ==
    /\ pc = "graph"
    /\ stg' = CheckGraph(stg, bld.ast)
    /\ pc' = After(stg', "from")
    /\ bld' = [bld EXCEPT !.step = Section("graph"),
                          !.arrows = IF stg'.error = ""
                                     THEN Flatten(bld.ast.graph) ELSE <<>>]
    /\ UNCHANGED mod /\ Dormant

\* where the graph loops continue when todo tokens of the arrow and the
\* arrows rest are left
Onward(n, todo, rest) ==
    IF n.error # "" THEN "failed"
    ELSE IF Len(todo) > 0 THEN "to"
    ELSE IF Len(rest) > 0 THEN "from"
    ELSE "emit"

\* fromName = arrow[0]; fromTP = self.matchTP(fromName)
BuildFrom ==
    /\ pc = "from"
    /\ LET arrow == Head(bld.arrows)
           rest == Tail(bld.arrows)
       IN IF Len(arrow) = 0
          THEN /\ stg' = Fail(stg, "IndexError")
               /\ pc' = "failed"
               /\ bld' = [bld EXCEPT !.step = Section("from")]
          ELSE LET r == matchTP(stg, arrow[1]) IN
               /\ stg' = r.stg
               /\ pc' = Onward(r.stg, Tail(arrow), rest)
               /\ bld' = [bld EXCEPT
                            !.arrows = rest,
                            !.todo = Tail(arrow),
                            !.from = [cls |-> r.cls, name |-> arrow[1]],
                            !.seen = @ \cup {arrow[1]},
                            !.step = [op |-> "from", from |-> arrow[1],
                                      to |-> <<>>, fromCls |-> r.cls,
                                      toCls |-> "none", prev |-> stg]]
    /\ UNCHANGED mod /\ Dormant

\* one turn of "for toName in arrow[1:]"
BuildTo ==
    /\ pc = "to"
    /\ LET toName == Head(bld.todo) IN
       /\ stg' = Connect(stg, bld.from.cls, bld.from.name, toName)
       /\ pc' = Onward(stg', Tail(bld.todo), bld.arrows)
       /\ bld' = [bld EXCEPT
                    !.todo = Tail(@),
                    !.seen = @ \cup {toName},
                    !.step = [op |-> "to", from |-> bld.from.name,
                              to |-> toName, fromCls |-> bld.from.cls,
                              toCls |-> matchTP(stg, toName).cls,
                              prev |-> stg]]
    /\ UNCHANGED mod /\ Dormant

\* "build stg": the statements are emitted and STG(...) returns
BuildEmit ==
    /\ pc = "emit"
    /\ LET m == Emit(stg) IN
       IF m.error = ""
       THEN mod' = m /\ pc' = "done" /\ stg' = stg
       ELSE mod' = mod /\ pc' = "failed" /\ stg' = Fail(stg, m.error)
    /\ bld' = [bld EXCEPT !.step = Section("emit")]
    /\ Dormant

\* cli: f = open(results.outFile, "w"); f.write(stg.getVA()); exit(0)
WriteFile ==
    /\ pc = "done"
    /\ pc' = "exit"
    /\ bld' = [bld EXCEPT !.file = "written", !.step = Section("write")]
    /\ UNCHANGED <<stg, mod>> /\ Dormant

BuildNext ==
    \/ BuildSignals
    \/ BuildCapacity
    \/ BuildMarkings
    \/ BuildGraph
    \/ BuildFrom
    \/ BuildTo
    \/ BuildEmit
    \/ WriteFile

BuildSpec == BuildInit /\ [][BuildNext]_vars

\* the net the stepwise build leaves is the net of Build
BuildAgrees ==
    pc \in {"emit", "done", "exit"} => stg = Build(bld.ast, bld.sigMap)

BuildFailureAgrees ==
    (pc = "failed" /\ bld.step.op # "emit") =>
       stg = Build(bld.ast, bld.sigMap)

(***************************************************************************)
(* The model generated by the standalone script, as a state machine.       *)
(***************************************************************************)
\* the nets run through the script
ScriptAsts == {AstHandshake, AstRace, AstCapacity, AstToggle, AstChoice,
               AstOverflow, AstShared, AstInputRace}

\* the model in hand was generated by the script
Script == mod.sigIfRising[1][Len(mod.sigIfRising[1])].op = "chkManyFatal"

\* mod.var(value = ...) of every variable of the script's model
ScriptInit ==
    /\ \E ast \in ScriptAsts, sigMap \in SigMaps :
          stg = BuildScript(ast, sigMap)
    /\ mod = EmitScript(stg)
    /\ mod.error = ""
    /\ par \in [OutSignals(stg) -> BOOLEAN]
    /\ tokens = [p \in PlaceNames(stg) |-> PlaceOf(stg, p).marking]
    /\ ongoing = [t \in VarTransitions(stg) |-> FALSE]
    /\ st = par
    /\ errVar = FALSE
    /\ done = 0
    /\ iter = 0
    /\ out = <<>>
    /\ rst \in BOOLEAN
    /\ pin = [s \in SignalNames(stg) |->
                IF s \in OutSignals(stg) THEN par[s] ELSE FALSE]
    /\ pc = "idle"
    /\ blk = <<>>
    /\ ip = 0
    /\ entry = Mach
    /\ nfired = 0
    /\ last = NoStmt
    /\ race = NoRace
    /\ bld = NoBuild

\* the reset input crosses: rising, the body of At(Above(...)) runs, which
\* is the reset sequence
ScriptResetCross ==
    /\ pc = "idle" /\ Bounded
    /\ rst' = ~rst
    /\ SetMach(IF rst' THEN RunRstAt(stg, Quiet(Mach), par, 1)
               ELSE Quiet(Mach))
    /\ pc' = "cascade"
    /\ last' = NoStmt
    /\ Static /\ UNCHANGED <<iter, pin, blk, ip, entry, nfired, race>>

\* At(Cross(signalObj.diffHalfDomain, "rising" / "falling")): the pin of
\* signal k crosses; the handler body is guarded by self.rst.read()
ScriptEdgeCross(k) ==
    /\ pc = "idle" /\ Bounded
    /\ LET s == stg.signals[k].name IN
       /\ pin' = [pin EXCEPT ![s] = ~@]
       /\ SetMach(Quiet(Mach))
       /\ IF rst
          THEN /\ pc' = "handler"
               /\ blk' = <<IF pin[s] THEN "falling" ELSE "rising", k>>
               /\ ip' = 1
               /\ entry' = Quiet(Mach)
               /\ nfired' = 0
          ELSE /\ pc' = "cascade"
               /\ UNCHANGED <<blk, ip, entry, nfired>>
    /\ last' = NoStmt
    /\ Static /\ UNCHANGED <<iter, rst, race>>

\* the effect of statement s of the script
StepScript(s) ==
    LET took == GuardScript(stg, Mach, s) IN
    /\ SetMach(ExecScript(stg, Quiet(Mach), s))
    /\ last' = [op |-> s.op, t |-> s.t, sig |-> s.sig, took |-> took]
    /\ nfired' = IF took /\ s.t # <<>> THEN nfired + 1 ELSE nfired

\* one statement of sigIfRising / sigIfFalling of the script
ScriptHandlerStep ==
    /\ pc = "handler"
    /\ StepScript(HandlerCode[ip])
    /\ IF out' # <<>> THEN ip' = ip /\ pc' = "fatal"
       ELSE IF ip < Len(HandlerCode) THEN ip' = ip + 1 /\ pc' = pc
       ELSE ip' = 0 /\ pc' = "cascade"
    /\ Static /\ UNCHANGED <<iter, rst, pin, blk, entry, race>>

\* one statement of cmdOut of the script
ScriptBodyStep ==
    /\ pc = "body"
    /\ StepScript(mod.cmdOut[ip])
    /\ IF out' # <<>> THEN ip' = ip /\ pc' = "fatal"
       ELSE IF ip < Len(mod.cmdOut) THEN ip' = ip + 1 /\ pc' = pc
       ELSE ip' = 0 /\ pc' = "cap"
    /\ Static /\ UNCHANGED <<iter, rst, pin, blk, entry, race>>

\* the loop of the script is the loop of the package, guarded by
\* self.rst.read()
ScriptNext ==
    \/ ScriptResetCross
    \/ \E k \in 1..Len(stg.signals) : ScriptEdgeCross(k)
    \/ ScriptHandlerStep
    \/ ScriptBodyStep
    \/ CascadeEntry
    \/ WhileTest
    \/ CapCheck

\* the model generated by either program
GenInit == Init \/ ScriptInit

GenNext == (~Script /\ Next) \/ (Script /\ ScriptNext)

GenSpec == GenInit /\ [][GenNext]_vars

(***************************************************************************)
(* Vocabulary of the properties.                                           *)
(***************************************************************************)
FromOf(t) == TransitionOf(stg, t).fromPlaces

ToOf(t) == TransitionOf(stg, t).toPlaces

\* number of occurrences of x in the list s
Count(x, s) == Cardinality({i \in 1..Len(s) : s[i] = x})

\* every from-place of t holds at least one token under the counts tok
AllMarked(tok, t) == \A i \in 1..Len(FromOf(t)) : tok[FromOf(t)[i]] > 0

EnableOps == {"fireDummy", "fireInput", "reqRise", "reqFall", "reqToggle"}

(***************************************************************************)
(* C1: in every reachable state the enable guard of every transition is    *)
(* true exactly when each of its from-places holds more than zero tokens,  *)
(* emptying any one from-place makes it false, and every statement that    *)
(* tests the guard takes its branch exactly when the from-places are all   *)
(* marked in the state in which the statement runs.                        *)
(***************************************************************************)
C1_GuardNow ==
    \A t \in TransitionNames(stg) :
       /\ isEnabled(stg, Mach, t) <=> AllMarked(tokens, t)
       /\ \A i \in 1..Len(FromOf(t)) :
             ~isEnabled(stg, [Mach EXCEPT !.tokens[FromOf(t)[i]] = 0], t)

C1_GuardUsed ==
    last'.op \in EnableOps => (last'.took <=> AllMarked(tokens, last'.t))

C1_EnabledIffAllFromMarked == [](C1_GuardNow) /\ [][C1_GuardUsed]_vars

\* a transition that was enabled when the pass began is found disabled
\* after another transition of the same pass took the token
C1_Witness ==
    /\ last.op = "fireDummy" /\ ~last.took /\ nfired = 1
    /\ isEnabled(stg, entry, last.t)
    /\ Len(FromOf(last.t)) > 0

\* the counts tok after one token left each from-place of t
Taken(tok, t) == [p \in DOMAIN tok |-> tok[p] - Count(p, FromOf(t))]

\* the counts tok after one token entered each to-place of t
Given(tok, t) == [p \in DOMAIN tok |-> tok[p] + Count(p, ToOf(t))]

\* the edge handler in which the input transition t fires
TriggeredBy(t, dirn) ==
    LET e == TransitionOf(stg, t).edge IN
    \/ e = Str("~")
    \/ e = Str("+") /\ dirn = "rising"
    \/ e = Str("-") /\ dirn = "falling"

(***************************************************************************)
(* C2: a statement that fires a transition atomically (a dummy inside a    *)
(* cascade pass, an input transition inside the handler of its edge) moves *)
(* the counts in one step from the counts before it to those counts minus  *)
(* one token per from-place plus one token per to-place when the           *)
(* transition is enabled, and leaves them alone when it is not; it touches *)
(* no ongoing cell and no driven level.                                    *)
(***************************************************************************)
C2_FireStep ==
    last'.op \in {"fireDummy", "fireInput"} =>
       /\ tokens' = IF AllMarked(tokens, last'.t)
                    THEN Given(Taken(tokens, last'.t), last'.t)
                    ELSE tokens
       /\ ongoing' = ongoing /\ st' = st
       /\ last'.op = "fireDummy" => pc = "body"
       /\ last'.op = "fireInput" =>
             pc = "handler" /\ TriggeredBy(last'.t, blk[1])

C2_AtomicFiring == [][C2_FireStep]_vars

\* a dummy with from-places and to-places has just fired
C2_Witness ==
    /\ last.op = "fireDummy" /\ last.took
    /\ Len(FromOf(last.t)) > 0 /\ Len(ToOf(last.t)) > 0
    /\ tokens # entry.tokens

(***************************************************************************)
(* C3: the request statement of a '+' or '-' transition of a DigOut        *)
(* signal, run in a cascade pass while the transition is enabled, takes    *)
(* one token from each from-place and sets the ongoing cell; if the driven *)
(* level already equals the target level it raises the write-conflict      *)
(* diagnostic, sets the error state and leaves the driven level alone,     *)
(* otherwise it drives the target level and raises nothing.  No count      *)
(* grows.  A request whose transition is not enabled changes nothing.      *)
(***************************************************************************)
C3_RequestStep ==
    last'.op \in {"reqRise", "reqFall"} =>
       LET t == last'.t
           sig == last'.sig
           target == (last'.op = "reqRise")
       IN /\ pc = "body"
          /\ TransitionOf(stg, t).edge = (IF target THEN Str("+") ELSE Str("-"))
          /\ AllMarked(tokens, t) =>
                /\ tokens' = Taken(tokens, t)
                /\ \A p \in PlaceNames(stg) : tokens'[p] <= tokens[p]
                /\ ongoing' = [ongoing EXCEPT ![t] = TRUE]
                /\ IF st[sig] = target
                   THEN /\ st' = st
                        /\ errVar'
                        /\ out' = <<Diag("conflict", t)>>
                   ELSE /\ st' = [st EXCEPT ![sig] = target]
                        /\ errVar' = errVar
                        /\ out' = <<>>
          /\ ~AllMarked(tokens, t) =>
                /\ tokens' = tokens /\ ongoing' = ongoing /\ st' = st
                /\ errVar' = errVar /\ out' = <<>>

C3_RequestPhase == [][C3_RequestStep]_vars

\* a '+' request has just found its signal already driven high
C3_Witness ==
    /\ last.op = "reqRise" /\ last.took
    /\ out = <<Diag("conflict", last.t)>>
    /\ ongoing[last.t] /\ st[last.sig]
    /\ Len(FromOf(last.t)) > 0 /\ Len(ToOf(last.t)) > 0

\* the signal and direction of the handler being run
HSig == stg.signals[blk[2]]

HDir == blk[1]

\* the transitions of the handler's signal that its edge completes
OnEdge == {t \in TransitionNames(stg) :
              /\ TransitionOf(stg, t).signame = HSig.name
              /\ TriggeredBy(t, HDir)}

\* those with the ongoing cell set when the handler began
Committed == {t \in OnEdge : entry.ongoing[t]}

RECURSIVE SumTo(_, _)
\* tokens the transitions of the set T deliver to place p
SumTo(T, p) ==
    IF T = {} THEN 0
    ELSE LET t == CHOOSE x \in T : TRUE
         IN Count(p, ToOf(t)) + SumTo(T \ {t}, p)

\* the handler of a DigOut signal has run all its commits
HandlerDone(dir) ==
    pc \in {"next", "cascade"} /\ last.op = "chkMany" /\ HSig.dir = dir

(***************************************************************************)
(* C4: a crossing of a DigOut signal observed while reset is released runs *)
(* the handler of that edge, and when the handler has run, every '+' / '~' *)
(* (rising) or '-' / '~' (falling) transition of the signal whose ongoing  *)
(* cell was set has its cell cleared and has put one token in each of its  *)
(* to-places, the completion counter holds the number of such transitions, *)
(* and every other ongoing cell and every other count is as it was.        *)
(***************************************************************************)
C4_AfterCommits ==
    HandlerDone("output") =>
       /\ ongoing = [t \in DOMAIN ongoing |->
                       IF t \in Committed THEN FALSE ELSE entry.ongoing[t]]
       /\ tokens = [p \in DOMAIN tokens |->
                       entry.tokens[p] + SumTo(Committed, p)]
       /\ done = Cardinality(Committed)
       /\ st = entry.st

C4_HandlerRuns ==
    \A k \in 1..Len(stg.signals) :
       (pc = "idle" /\ pin'[stg.signals[k].name] # pin[stg.signals[k].name]
          /\ Released(rst))
       => /\ pc' = "handler"
          /\ \E n \in 1..(Len(blk') \div 2) :
                /\ blk'[2 * n - 1] = IF pin'[stg.signals[k].name]
                                     THEN "rising" ELSE "falling"
                /\ blk'[2 * n] = k
          /\ ip' = 1

C4_CommitPhase == [](C4_AfterCommits) /\ [][C4_HandlerRuns]_vars

\* a handler committed one transition and left another ongoing cell of the
\* same signal, and the cells of the other edge, as they were
C4_Witness ==
    /\ HandlerDone("output")
    /\ Committed # {}
    /\ \E t \in Committed : Len(ToOf(t)) > 0
    /\ \E t \in DOMAIN ongoing : t \notin OnEdge

\* the transitions the cascade loop handles: those of dummies and of
\* DigOut signals
CascadeTransitions ==
    {t \in TransitionNames(stg) :
        \/ TransitionOf(stg, t).signame \in SeqRange(stg.dummies)
        \/ TransitionOf(stg, t).signame \in OutSignals(stg)}

\* the loop test follows a completed pass (iter > 0) in which n statements
\* fired
AfterPass == pc = "while" /\ iter > 0

(***************************************************************************)
(* C5: the cascade loop always runs a first pass; after a pass in which at *)
(* least one dummy fired or one request was made it runs another pass;     *)
(* it leaves the loop by the loop test only after a pass in which          *)
(* nothing fired, and then no dummy transition and no transition of a      *)
(* DigOut signal is enabled.                                               *)
(***************************************************************************)
C5_LoopStep ==
    /\ (pc = "while" /\ iter = 0) => (pc' = "body" /\ iter' = 1)
    /\ (AfterPass /\ nfired > 0) => (pc' = "body" /\ iter' = iter + 1)
    /\ (pc = "while" /\ pc' = "idle") =>
          /\ AfterPass /\ nfired = 0
          /\ \A t \in CascadeTransitions : ~AllMarked(tokens, t)
          /\ \A t \in CascadeTransitions : ~AllMarked(tokens', t)
    /\ (pc \in {"while", "body", "cap"} /\ pc' = "idle") => pc = "while"

C5_CascadeFixedPoint == [][C5_LoopStep]_vars

\* the loop has left normally after three firing passes and a quiet one
C5_Witness ==
    /\ pc = "idle" /\ rst /\ iter = 4 /\ nfired = 0 /\ done = 1
    /\ CascadeTransitions # {}
    /\ tokens # [p \in PlaceNames(stg) |-> PlaceOf(stg, p).marking]

(***************************************************************************)
(* C6: every evaluation of the cascade loop ends, at the loop test after   *)
(* a quiet pass or with Fatal; the pass counter never exceeds the cap by   *)
(* more than one, no pass begins once the cap is exceeded, and the pass    *)
(* that exceeds the cap raises Fatal.                                      *)
(***************************************************************************)
C6_PassBound ==
    /\ iter <= CascadeCap + 1
    /\ pc = "while" => iter <= CascadeCap
    /\ pc = "fatal" => iter = CascadeCap + 1

C6_CapStep ==
    /\ (pc = "cap" /\ iter > CascadeCap) => pc' = "fatal"
    /\ (pc = "while" /\ pc' = "idle") => (nfired = 0 /\ iter <= CascadeCap)

C6_CascadeTerminates ==
    /\ [](C6_PassBound)
    /\ [][C6_CapStep]_vars
    /\ (pc \in {"cascade", "while", "body", "cap"}) ~> (pc \in {"idle", "fatal"})

\* the loop has run past the cap and raised Fatal
C6_Witness ==
    /\ pc = "fatal" /\ iter = CascadeCap + 1
    /\ out = <<Diag("fatal", <<>>)>>

\* no dummy transition and no transition of a DigOut signal is enabled
\* under the counts tok
Quiescent(tok) == \A t \in CascadeTransitions : ~AllMarked(tok, t)

(***************************************************************************)
(* C7 as stated: Fatal is not raised when the firing passes reach a        *)
(* quiescent state after at most 500 passes, that is, when Fatal is raised *)
(* the state left by the 500th pass (the state in which pass 501 began)    *)
(* still enables a dummy transition or a transition of a DigOut signal.    *)
(***************************************************************************)
C7_Original == pc = "fatal" => ~Quiescent(entry.tokens)

(***************************************************************************)
(* C7 amended: Fatal is not raised when the firing passes reach a          *)
(* quiescent state after at most 499 passes: a pass numbered 500 or less   *)
(* that begins in a quiescent state is followed by the normal exit, and    *)
(* Fatal is only ever raised by pass 501.                                  *)
(***************************************************************************)
C7_QuietPassExits ==
    /\ (pc = "cap" /\ iter <= CascadeCap /\ Quiescent(entry.tokens)) =>
          (pc' = "while" /\ done' # 0 /\ tokens' = entry.tokens)
    /\ (AfterPass /\ Quiescent(entry.tokens)) => pc' = "idle"
    /\ pc' = "fatal" => (pc = "cap" /\ iter = CascadeCap + 1)

C7_FatalOnlyPastCap == [][C7_QuietPassExits]_vars

\* quiescence reached by 499 firing passes, found by pass 500, normal exit
C7_Witness ==
    /\ pc = "idle" /\ iter = CascadeCap /\ nfired = 0
    /\ Quiescent(tokens)
    /\ \E p \in PlaceNames(stg) :
          tokens[p] = CascadeCap - 1 /\ PlaceOf(stg, p).marking = 0

\* the handler of a DigOut signal has just run the named check
CheckRan(op) ==
    /\ last.op = op /\ pc \in {"handler", "next", "cascade"}
    /\ HSig.dir = "output"

(***************************************************************************)
(* C8 as stated: when the handler of an observed crossing of a DigOut      *)
(* signal has run (reset released, error state clear before), the error    *)
(* state is set exactly when the number of transitions committed for the   *)
(* edge differs from 1.                                                    *)
(***************************************************************************)
C8_Original ==
    (HandlerDone("output") /\ ~entry.errVar) =>
       (errVar <=> Cardinality(Committed) # 1)

\* a token placed by a commit of this handler left its place over capacity
CommitOverflow ==
    \E p \in PlaceNames(stg) :
       SumTo(Committed, p) > 0 /\ tokens[p] > PlaceOf(stg, p).capacity

(***************************************************************************)
(* C8 amended: in the handler of an observed crossing of a DigOut signal   *)
(* (reset released) the first check raises the unexplained-edge diagnostic *)
(* and sets the error state exactly when no transition was committed for   *)
(* the edge, the second raises the racing-completion diagnostic and sets   *)
(* the error state exactly when two or more were committed, and with       *)
(* exactly one commit the two checks raise nothing; over the whole handler *)
(* the error state becomes set exactly when the number of commits differs  *)
(* from 1 or a committed token left its place over capacity.               *)
(***************************************************************************)
C8_Checks ==
    LET n == Cardinality(Committed) IN
    /\ CheckRan("chkNone") =>
          /\ last.took <=> n = 0
          /\ out = IF n = 0 THEN <<Diag("none", HSig.name)>> ELSE <<>>
    /\ CheckRan("chkMany") =>
          /\ last.took <=> n >= 2
          /\ out = IF n >= 2 THEN <<Diag("many", HSig.name)>> ELSE <<>>
          /\ done = n
          /\ ~entry.errVar => (errVar <=> (n # 1 \/ CommitOverflow))

C8_CheckStep ==
    last'.op \in {"chkNone", "chkMany"} =>
       /\ errVar' = (errVar \/ last'.took)
       /\ tokens' = tokens /\ ongoing' = ongoing /\ st' = st /\ done' = done

C8_LivenessConflictCheck == [](C8_Checks) /\ [][C8_CheckStep]_vars

\* an edge of a DigOut signal that has transitions was observed while
\* none of them was ongoing: unexplained edge, error state newly set
C8_Witness ==
    /\ CheckRan("chkNone") /\ last.took
    /\ OnEdge # {} /\ Committed = {}
    /\ ~entry.errVar /\ errVar

\* the placements of the list to, made on the counts base, whose new count
\* exceeds the capacity of the place: indices in the order of placement
OverIdx(base, to) ==
    SelectSeq([i \in 1..Len(to) |-> i],
              LAMBDA i : base[to[i]] + Count(to[i], SubSeq(to, 1, i))
                            > PlaceOf(stg, to[i]).capacity)

\* the capacity diagnostics those placements raise
OverDiags(base, to) ==
    [k \in 1..Len(OverIdx(base, to)) |->
        Diag("capacity", to[OverIdx(base, to)[k]])]

(***************************************************************************)
(* C9: every statement that places tokens (an atomic firing or a commit    *)
(* whose condition holds) adds every token to its place, whatever the      *)
(* capacity, and raises one capacity diagnostic per placement whose new    *)
(* count exceeds the capacity of the place, in the order of placement,     *)
(* setting the error state exactly when there is such a placement; a       *)
(* place holding 2 tokens with capacity 2 holds 3 after the next           *)
(* placement, which raises the diagnostic.                                 *)
(***************************************************************************)
C9_PlaceStep ==
    (last'.op \in {"fireDummy", "fireInput", "commit"} /\ last'.took) =>
       LET t == last'.t
           base == IF last'.op = "commit" THEN tokens ELSE Taken(tokens, t)
       IN /\ tokens' = Given(base, t)
          /\ out' = OverDiags(base, ToOf(t))
          /\ errVar' = (errVar \/ OverDiags(base, ToOf(t)) # <<>>)
          /\ \A p \in SeqRange(ToOf(t)) :
                (base[p] = 2 /\ PlaceOf(stg, p).capacity = 2
                   /\ Count(p, ToOf(t)) = 1)
                => /\ tokens'[p] = 3
                   /\ errVar'
                   /\ Diag("capacity", p) \in SeqRange(out')

C9_CapacityNonBlocking == [][C9_PlaceStep]_vars

\* marking p1 = 2, capacity p1 = 2: a third token has just been placed
C9_Witness ==
    /\ last.op = "fireInput" /\ last.took
    /\ nP1 \in PlaceNames(stg)
    /\ PlaceOf(stg, nP1).marking = 2 /\ PlaceOf(stg, nP1).capacity = 2
    /\ entry.tokens[nP1] = 2 /\ tokens[nP1] = 3
    /\ ~entry.errVar /\ errVar
    /\ out = <<Diag("capacity", nP1)>>

\* number of statements of the list code with operation op
CountOp(code, op) == Cardinality({i \in 1..Len(code) : code[i].op = op})

\* the racing-completion diagnostic is among the messages of the last step
RacingRaised == \E i \in 1..Len(out) : out[i].kind = "many"

(***************************************************************************)
(* C10 as stated: when an edge of a DigOut signal is observed and one of   *)
(* the transitions it completes was requested while another transition of  *)
(* the same signal and edge was enabled together with it, the handler      *)
(* raises the racing-completion diagnostic (once).                         *)
(***************************************************************************)
C10_Original ==
    (CheckRan("chkMany") /\ Committed \cap race.contested # {}) =>
       out = <<Diag("many", HSig.name)>>

(***************************************************************************)
(* C10 amended: when an edge of a DigOut signal is observed and one of the *)
(* transitions it completes was requested in the same cascade evaluation   *)
(* as another transition of the same signal and edge, with no reset since, *)
(* the handler raises the racing-completion diagnostic exactly once: the   *)
(* diagnostic comes from the one racing check of the handler, only when    *)
(* two or more transitions were committed, never from a request, and an    *)
(* ongoing cell stays set from the request to the commit or a reset.       *)
(***************************************************************************)
C10_AtEdge ==
    /\ (CheckRan("chkMany") /\ Committed \cap race.together # {}) =>
          /\ out = <<Diag("many", HSig.name)>>
          /\ Cardinality(Committed) >= 2
    /\ RacingRaised =>
          /\ last.op = "chkMany" /\ Len(out) = 1
          /\ HSig.dir = "output" => Cardinality(Committed) >= 2
    /\ CountOp(mod.cmdOut, "chkMany") = 0
    /\ \A k \in 1..Len(stg.signals) :
          /\ CountOp(mod.sigIfRising[k], "chkMany") = 1
          /\ CountOp(mod.sigIfFalling[k], "chkMany") = 1

C10_CellKept ==
    \A t \in DOMAIN ongoing :
       (ongoing[t] /\ ~ongoing'[t]) =>
          \/ last'.op = "commit" /\ last'.t = t
          \/ ~rst'

C10_RacingOnce == [](C10_AtEdge) /\ [][C10_CellKept]_vars

\* two '+' transitions requested in one cascade evaluation have both been
\* committed on the rising edge, and the racing check has just answered
C10_Witness ==
    /\ CheckRan("chkMany") /\ last.took
    /\ \E t, u \in Committed \cap race.together :
          /\ Rival(stg, t, u)
          /\ TransitionOf(stg, t).edge = Str("+")
    /\ out = <<Diag("many", HSig.name)>>

\* the transitions of the dummies
DummyTransitions ==
    {t \in TransitionNames(stg) :
        TransitionOf(stg, t).signame \in SeqRange(stg.dummies)}

\* u is enabled only after t fires: the only from-place of u is unmarked
\* and receives its tokens from t alone
Feeds(t, u) ==
    /\ Len(FromOf(u)) = 1
    /\ PlaceOf(stg, FromOf(u)[1]).fromTransitions = <<t>>
    /\ PlaceOf(stg, FromOf(u)[1]).marking = 0

\* the chains d1 -> d2 -> d3 of the net: three dummy transitions, the first
\* one enabled by a transition of an input signal
Chains ==
    {c \in DummyTransitions \X DummyTransitions \X DummyTransitions :
        /\ Cardinality({c[1], c[2], c[3]}) = 3
        /\ Feeds(c[1], c[2]) /\ Feeds(c[2], c[3])
        /\ \E t \in TransitionNames(stg) \ DummyTransitions : Feeds(t, c[1])}

IsChain == Cardinality(DummyTransitions) = 3 /\ Chains # {}

\* no transition of a chain is left enabled
Resolved3 == \A c \in Chains : \A k \in 1..3 : tokens[FromOf(c[k])[1]] = 0

(***************************************************************************)
(* C11 as stated: in a net that is a chain of three dummy transitions, a   *)
(* cascade evaluation never runs more than 3 passes, never raises Fatal,   *)
(* and leaves no transition of the chain enabled.                          *)
(***************************************************************************)
C11_Original ==
    IsChain => (iter <= 3 /\ pc # "fatal" /\ (pc = "idle" => Resolved3))

(***************************************************************************)
(* C11 amended: in a net that is a chain of three dummy transitions,       *)
(* whatever the order of their statements in the loop body, a cascade      *)
(* evaluation never raises Fatal, leaves no transition of the chain        *)
(* enabled, and runs at most 3 passes that fire something, followed by the *)
(* pass that fires nothing and ends the loop: at most 4 passes in all.     *)
(***************************************************************************)
C11_ChainResolves ==
    IsChain =>
       /\ pc # "fatal"
       /\ iter <= 4
       /\ (pc \in {"cap", "while"} /\ iter > 0 /\ nfired > 0) => iter <= 3
       /\ pc = "idle" => Resolved3

\* the chain whose statements stand in the reverse of the firing order has
\* been resolved by one evaluation: three firing passes and a quiet one
C11_Witness ==
    /\ IsChain /\ pc = "idle" /\ rst
    /\ iter = 4 /\ nfired = 0
    /\ \E c \in Chains :
          /\ mod.cmdOut = <<Stmt("fireDummy", c[3], TransitionOf(stg, c[3]).signame),
                            Stmt("fireDummy", c[2], TransitionOf(stg, c[2]).signame),
                            Stmt("fireDummy", c[1], TransitionOf(stg, c[1]).signame)>>
          /\ \E i \in 1..Len(ToOf(c[3])) : tokens[ToOf(c[3])[i]] = 1

\* the dummy transitions whose firing unconditionally re-enables them:
\* every from-place is marked, is also a to-place, and feeds no other
\* transition
SelfLoops ==
    {t \in DummyTransitions :
        /\ Len(FromOf(t)) > 0
        /\ \A i \in 1..Len(FromOf(t)) :
              LET P == PlaceOf(stg, FromOf(t)[i]) IN
              /\ P.name \in SeqRange(ToOf(t))
              /\ P.marking > 0
              /\ P.toTransitions = <<t>>}

IsSelfLoop == SelfLoops # {}

(***************************************************************************)
(* C12: in a net with a dummy transition that re-enables itself, the first *)
(* cascade evaluation entered with reset released never leaves the loop by *)
(* the loop test: every pass fires, the pass counter runs past the cap and *)
(* the evaluation ends with Fatal.  Before that evaluation no pass has     *)
(* run.                                                                    *)
(***************************************************************************)
C12_Inv ==
    IsSelfLoop =>
       /\ pc = "idle" => iter = 0
       /\ pc = "while" => (done = 0 /\ iter <= CascadeCap)
       /\ (pc \in {"cap", "while"} /\ iter > 0) => nfired > 0
       /\ pc = "fatal" =>
             (iter = CascadeCap + 1 /\ out = <<Diag("fatal", <<>>)>>)

C12_Enter ==
    (IsSelfLoop /\ pc = "cascade" /\ Released(rst)) =>
       (pc' = "while" /\ iter' = 0)

C12_SelfLoopFatal ==
    /\ [](C12_Inv)
    /\ [][C12_Enter]_vars
    /\ (IsSelfLoop /\ pc = "cascade" /\ Released(rst)) ~> (pc = "fatal")

\* the self-loop has run 501 passes, each firing the dummy, and Fatal is
\* raised with the marking as it was
C12_Witness ==
    /\ IsSelfLoop /\ pc = "fatal" /\ iter = CascadeCap + 1
    /\ last = NoStmt /\ nfired = 1
    /\ \A t \in SelfLoops : AllMarked(tokens, t)
    /\ out = <<Diag("fatal", <<>>)>>

\* STG(...) has returned the net
Built == pc \in {"done", "exit"}

\* the kinds, after remapping, of the sections that declare name ("internal"
\* when the table leaves internal signals unmapped)
Kinds(name) ==
    {EffKind(bld.sigMap, SigTypes[k]) :
        k \in {j \in 1..Len(SigTypes) :
                  /\ SigTypes[j] \in bld.ast.keys
                  /\ name \in SeqRange(Flatten(bld.ast[SigTypes[j]]))}}

\* the operations of the statements emitted for transition t in the loop
\* body and in the edge handlers
LoopOps(t) ==
    {mod.cmdOut[i].op : i \in {j \in 1..Len(mod.cmdOut) : mod.cmdOut[j].t = t}}

HandlerOps(t) ==
    UNION {{h[i].op : i \in {j \in 1..Len(h) : h[j].t = t}} :
             h \in SeqRange(mod.sigIfRising) \cup SeqRange(mod.sigIfFalling)}

\* t has an ongoing cell, reset with the net, is requested in the loop body
\* and committed in an edge handler
SplitShape(t) ==
    /\ TransitionOf(stg, t).var
    /\ [kind |-> "ongoing", name |-> t] \in SeqRange(stg.rstAt)
    /\ LoopOps(t) # {} /\ LoopOps(t) \subseteq {"reqRise", "reqFall", "reqToggle"}
    /\ HandlerOps(t) = {"commit"}

\* t has no ongoing cell and is fired by one statement, in the loop body
\* (dummy) or in an edge handler (input)
AtomicShape(t, op) ==
    /\ ~TransitionOf(stg, t).var
    /\ [kind |-> "ongoing", name |-> t] \notin SeqRange(stg.rstAt)
    /\ LoopOps(t) \cup HandlerOps(t) = {op}
    /\ op = "fireDummy" => HandlerOps(t) = {}
    /\ op = "fireInput" => LoopOps(t) = {}

(***************************************************************************)
(* C13 as stated: in a completed build every transition of a signal whose  *)
(* kind is output or internal (internal: declared in .internal and left    *)
(* unmapped by the table) has the split shape, and every transition of an  *)
(* input or dummy signal has the atomic shape.                             *)
(***************************************************************************)
C13_Original ==
    Built =>
       \A t \in TransitionNames(stg) :
          LET kinds == Kinds(TransitionOf(stg, t).signame) IN
          /\ kinds \cap {"output", "internal"} # {} => SplitShape(t)
          /\ "input" \in kinds => AtomicShape(t, "fireInput")
          /\ "dummy" \in kinds => AtomicShape(t, "fireDummy")

(***************************************************************************)
(* C13 amended: in a completed build every transition of a signal whose    *)
(* kind after remapping is output (declared in .outputs, or in .internal   *)
(* under -seeInternals, and not turned into an input) has an ongoing cell  *)
(* and the split request/commit shape; every transition of a signal whose  *)
(* kind after remapping is input has no ongoing cell and fires atomically  *)
(* in the handler of its edge; every transition of a dummy, and of a       *)
(* signal declared in .internal that the table leaves unmapped (the CLI    *)
(* default), has no ongoing cell and fires atomically in the cascade loop. *)
(***************************************************************************)
C13_ShapeByKind ==
    Built =>
       \A t \in TransitionNames(stg) :
          LET kinds == Kinds(TransitionOf(stg, t).signame) IN
          /\ kinds # {}
          /\ "output" \in kinds => SplitShape(t)
          /\ "input" \in kinds => AtomicShape(t, "fireInput")
          /\ kinds \cap {"dummy", "internal"} # {} =>
                AtomicShape(t, "fireDummy")

\* default table: a transition of an output signal with its ongoing cell
\* next to a transition of an unmapped internal signal without one
C13_Witness ==
    /\ Built /\ bld.sigMap = SigMapDefault
    /\ \E t, u \in TransitionNames(stg) :
          /\ Kinds(TransitionOf(stg, t).signame) = {"internal"}
          /\ AtomicShape(t, "fireDummy")
          /\ Kinds(TransitionOf(stg, u).signame) = {"output"}
          /\ SplitShape(u)

\* the token texts tried: those of the graphs explored and some more
TokenPool ==
    UNION {UNION {SeqRange(g.lines[i]) : i \in 1..Len(g.lines)} :
             g \in GraphOpts}
    \cup {Ap1, At_, nDs1, nP1, Imp(Ap, Ip), Imp(nP, nQ)}

\* the graph loops are running or have run, and the net is sound
Resolving == pc \in {"from", "to", "emit", "done", "exit"} /\ stg.error = ""

\* the token the last step resolved
StepToken(step) == IF step.op = "from" THEN step.from ELSE step.to

(***************************************************************************)
(* C14: at every point of the graph loops and for every token text, a      *)
(* resolution that returns an object, followed by a resolution of the same *)
(* text, returns the object of the same class under the same key and       *)
(* leaves the place registry, the transition registry and the reset        *)
(* sequence as the first resolution left them; the same holds of           *)
(* matchPlace.  A step of the build that resolves a token text resolved    *)
(* before adds no transition, adds no place other than the implicit place  *)
(* of a new arc, and appends to the reset sequence only for that place.    *)
(***************************************************************************)
C14_Again ==
    Resolving =>
       \A tok \in TokenPool :
          LET r1 == matchTP(stg, tok)
              r2 == matchTP(r1.stg, tok)
              p1 == matchPlace(stg, tok)
              p2 == matchPlace(p1.stg, tok)
          IN /\ r1.cls # "none" =>
                   /\ r2.cls = r1.cls /\ r2.name = r1.name
                   /\ r2.stg.places = r1.stg.places
                   /\ r2.stg.transitions = r1.stg.transitions
                   /\ r2.stg.rstAt = r1.stg.rstAt
                   /\ r2.stg = r1.stg
                   /\ r1.cls = "Place" =>
                         Cardinality({i \in 1..Len(r1.stg.places) :
                                         r1.stg.places[i].name = tok}) = 1
                   /\ r1.cls = "Transition" =>
                         Cardinality({i \in 1..Len(r1.stg.transitions) :
                                         r1.stg.transitions[i].name = tok}) = 1
             /\ p2 = p1

C14_SeenStep ==
    (bld'.step.op \in {"from", "to"} /\ StepToken(bld'.step) \in bld.seen
       /\ stg'.error = "")
    => LET imp == Imp(bld'.step.from, bld'.step.to)
           new == bld'.step.op = "to" /\ bld'.step.fromCls = "Transition"
                  /\ bld'.step.toCls = "Transition"
                  /\ imp \notin PlaceNames(stg)
       IN /\ [i \in 1..Len(stg'.transitions) |-> stg'.transitions[i].name]
             = [i \in 1..Len(stg.transitions) |-> stg.transitions[i].name]
          /\ [i \in 1..Len(stg'.places) |-> stg'.places[i].name]
             = [i \in 1..Len(stg.places) |-> stg.places[i].name]
               \o (IF new THEN <<imp>> ELSE <<>>)
          /\ stg'.rstAt = stg.rstAt
               \o (IF new THEN <<[kind |-> "place", name |-> imp]>> ELSE <<>>)
          /\ bld'.step.op = "from" => stg' = stg

C14_IdempotentResolution == [](C14_Again) /\ [][C14_SeenStep]_vars

\* the build has resolved again, as the first token of an arrow, the text
\* of a transition with an ongoing cell: the net is as it was
C14_Witness ==
    /\ bld.step.op = "from" /\ stg.error = ""
    /\ bld.step.from \in TransitionNames(bld.step.prev)
    /\ TransitionOf(stg, bld.step.from).var
    /\ bld.step.prev.places # <<>>
    /\ stg = bld.step.prev

\* the last step connected two transitions
ArcTT(step) ==
    step.op = "to" /\ step.fromCls = "Transition" /\ step.toCls = "Transition"

\* the override recorded under name in the table, or the default
OverrideOr(table, name, default) ==
    IF name \in DOMAIN table THEN table[name] ELSE default

\* the places registered under name
PlacesNamed(g, name) == {i \in 1..Len(g.places) : g.places[i].name = name}

\* every neighbour of a transition is a place and every neighbour of a
\* place is a transition
Bipartite ==
    /\ \A i \in 1..Len(stg.transitions) :
          SeqRange(stg.transitions[i].fromPlaces)
             \cup SeqRange(stg.transitions[i].toPlaces)
          \subseteq PlaceNames(stg) \ TransitionNames(stg)
    /\ \A i \in 1..Len(stg.places) :
          SeqRange(stg.places[i].fromTransitions)
             \cup SeqRange(stg.places[i].toTransitions)
          \subseteq TransitionNames(stg) \ PlaceNames(stg)

(***************************************************************************)
(* C15: a step of the graph loop whose from-token and to-token both        *)
(* resolve to transitions leaves exactly one place named from-token, comma,*)
(* to-token: the place already registered under that name, unchanged but   *)
(* for the new links, or a new one, last in the registry, with the marking *)
(* and capacity recorded under that name (0 and 1 when none is recorded);  *)
(* the step appends the place to the to-places of the from-transition and  *)
(* to the from-places of the to-transition, and the two transitions to the *)
(* from- and to-transitions of the place; nothing else is linked, and no   *)
(* transition ever has a transition as neighbour.                          *)
(***************************************************************************)
C15_ArcStep ==
    (ArcTT(bld'.step) /\ stg'.error = "") =>
       LET from == bld'.step.from
           to == bld'.step.to
           T == bld'.step.prev
           imp == from \o <<",">> \o to
           old == imp \in PlaceNames(stg)
           mid == matchTP(stg, to).stg
       IN /\ T = stg
          /\ Cardinality(PlacesNamed(stg', imp)) = 1
          /\ Len(stg'.places) = Len(mid.places) + (IF old THEN 0 ELSE 1)
          /\ LET P == PlaceOf(stg', imp) IN
             IF old
             THEN /\ P.marking = PlaceOf(stg, imp).marking
                  /\ P.capacity = PlaceOf(stg, imp).capacity
                  /\ P.fromTransitions
                        = PlaceOf(stg, imp).fromTransitions \o <<from>>
                  /\ P.toTransitions
                        = PlaceOf(stg, imp).toTransitions \o <<to>>
             ELSE /\ P = stg'.places[Len(stg'.places)]
                  /\ P.marking = OverrideOr(stg.markings, imp, 0)
                  /\ P.capacity = OverrideOr(stg.capacity, imp, 1)
                  /\ P.fromTransitions = <<from>>
                  /\ P.toTransitions = <<to>>
          /\ \A i \in 1..Len(mid.places) :
                mid.places[i].name # imp => stg'.places[i] = mid.places[i]
          /\ \A i \in 1..Len(stg'.transitions) :
                LET U == stg'.transitions[i]
                    V == mid.transitions[i]
                IN /\ U.toPlaces = V.toPlaces
                        \o (IF U.name = from THEN <<imp>> ELSE <<>>)
                   /\ U.fromPlaces = V.fromPlaces
                        \o (IF U.name = to THEN <<imp>> ELSE <<>>)

C15_ImplicitPlace == [](Bipartite) /\ [][C15_ArcStep]_vars

\* the arc i+ a+ has made the place "i+,a+" with the marking 2 and the
\* capacity 3 recorded for <i+,a+>
C15_Witness ==
    /\ ArcTT(bld.step) /\ stg.error = ""
    /\ bld.step.from = Ip /\ bld.step.to = Ap
    /\ Imp(Ip, Ap) \notin PlaceNames(bld.step.prev)
    /\ PlaceOf(stg, Imp(Ip, Ap)).marking = 2
    /\ PlaceOf(stg, Imp(Ip, Ap)).capacity = 3
    /\ TransitionOf(stg, Ip).toPlaces = <<Imp(Ip, Ap)>>
    /\ TransitionOf(stg, Ap).fromPlaces = <<Imp(Ip, Ap)>>

\* the names declared, section after section, in the order of the source
Declared ==
    Flatten([k \in 1..Len(SigTypes) |->
               IF SigTypes[k] \in bld.ast.keys
               THEN Flatten(bld.ast[SigTypes[k]]) ELSE <<>>])

\* some name is declared twice, in one section or in two
DeclaredTwice ==
    \E i, j \in 1..Len(Declared) : i < j /\ Declared[i] = Declared[j]

\* the lines of the .graph sections
GraphLines ==
    IF "graph" \in bld.ast.keys THEN Flatten(bld.ast.graph) ELSE <<>>

\* some line of the graph connects its first token to another token
HasArc == \E i \in 1..Len(GraphLines) : Len(GraphLines[i]) >= 2

\* nothing has been generated and the output file has not been opened
NothingProduced == mod = NoModule /\ bld.file = "untouched"

(***************************************************************************)
(* C16 as stated: a build in which some name is declared twice among the   *)
(* signal declarations never returns a net: it fails, nothing is generated *)
(* and no file is written (stated here for the builds whose graph has an   *)
(* arc).                                                                   *)
(***************************************************************************)
C16_Original == (DeclaredTwice /\ HasArc) => (~Built /\ NothingProduced)

\* no name is declared in a section whose kind after remapping is input or
\* output
NoPins ==
    \A k \in 1..Len(SigTypes) :
       (SigTypes[k] \in bld.ast.keys
          /\ EffKind(bld.sigMap, SigTypes[k]) \in {"input", "output"})
       => Flatten(bld.ast[SigTypes[k]]) = <<>>

(***************************************************************************)
(* C17: a build whose declarations give no signal of kind input or output  *)
(* after remapping fails in the signal section, whatever dummies or        *)
(* unmapped internal signals it declares: no override is recorded, no      *)
(* token is resolved, no place or transition exists, nothing is generated  *)
(* and no file is written; the build then stays failed.                    *)
(***************************************************************************)
C17_Inv ==
    (NoPins /\ pc # "signals") =>
       /\ pc = "failed"
       /\ stg.error = "There is no input or output signals"
       /\ bld.step.op = "signals"
       /\ stg.signals = <<>>
       /\ stg.capacity = EmptyMap /\ stg.markings = EmptyMap
       /\ bld.seen = {} /\ bld.arrows = <<>>
       /\ stg.places = <<>> /\ stg.transitions = <<>>
       /\ NothingProduced

C17_Step == (NoPins /\ pc = "signals") => pc' = "failed"

C17_NoSignalsFails == [](C17_Inv) /\ [][C17_Step]_vars

\* a build with a dummy, an unmapped internal signal, overrides and arcs
\* has failed for want of a pin
C17_Witness ==
    /\ NoPins /\ pc = "failed"
    /\ stg.dummies # <<>>
    /\ "internal" \in bld.ast.keys /\ "dummy" \in bld.ast.keys
    /\ "capacity" \in bld.ast.keys /\ "marking" \in bld.ast.keys
    /\ HasArc

\* the last step met an arrow from a place to a place
ArcPP(step) ==
    step.op = "to" /\ step.fromCls = "Place" /\ step.toCls = "Place"

\* the arrows of the source read so far, as pairs <<first token, later
\* token>> of one line: all those of the lines done, and those of the line
\* being read up to the token last connected
ArrowsRead ==
    IF pc \notin {"from", "to", "emit", "done", "exit"} THEN {}
    ELSE LET n == Len(GraphLines) - Len(bld.arrows)
             upto(i) == Len(GraphLines[i])
                          - (IF i = n THEN Len(bld.todo) ELSE 0)
         IN UNION {{<<GraphLines[i][1], GraphLines[i][j]>> : j \in 2..upto(i)} :
                     i \in 1..n}

(***************************************************************************)
(* C18: the step of the graph loop that meets an arrow whose from-token    *)
(* and to-token both resolve to places fails the build: no link is made,   *)
(* nothing is generated and no file is written.  While the build has not   *)
(* failed, none of the arrows read joins two places, and every neighbour   *)
(* recorded for a place is a transition.                                   *)
(***************************************************************************)
C18_Inv ==
    /\ ArcPP(bld.step) =>
          /\ pc = "failed" /\ stg.error # ""
          /\ NothingProduced
          /\ \A i \in 1..Len(stg.places) :
                /\ stg.places[i].name \in PlaceNames(bld.step.prev) =>
                      stg.places[i] = PlaceOf(bld.step.prev, stg.places[i].name)
                /\ stg.places[i].name \notin PlaceNames(bld.step.prev) =>
                      /\ stg.places[i].fromTransitions = <<>>
                      /\ stg.places[i].toTransitions = <<>>
    /\ stg.error = "" =>
          /\ \A a \in ArrowsRead :
                ~(a[1] \in PlaceNames(stg) /\ a[2] \in PlaceNames(stg))
          /\ \A i, j \in 1..Len(stg.places) :
                stg.places[j].name \notin
                   SeqRange(stg.places[i].fromTransitions)
                      \cup SeqRange(stg.places[i].toTransitions)

C18_Step == ArcPP(bld'.step) => pc' = "failed"

C18_NoPlaceToPlace == [](C18_Inv) /\ [][C18_Step]_vars

\* the arrow p q, after the arrow i+ p, has failed the build
C18_Witness ==
    /\ ArcPP(bld.step) /\ pc = "failed"
    /\ bld.step.from = nP /\ bld.step.to = nQ
    /\ nP \in PlaceNames(bld.step.prev)
    /\ PlaceOf(stg, nP).fromTransitions # <<>>
    /\ NothingProduced

\* the entries of the .capacity and .marking sections
CapEntries ==
    IF "capacity" \in bld.ast.keys THEN Flatten(bld.ast.capacity) ELSE <<>>

MarkEntries ==
    IF "marking" \in bld.ast.keys THEN Flatten(bld.ast.marking) ELSE <<>>

\* the entries before the first one that the section refuses: an entry
\* with a wrong number of elements (lens: the numbers allowed) or with a
\* name already entered
Accepted(entries, lens) ==
    LET bad(k) == \/ Len(entries[k]) \notin lens
                  \/ \E i \in 1..(k - 1) : entries[i][1] = entries[k][1]
        stop == {k \in 1..Len(entries) : bad(k)}
    IN IF stop = {} THEN entries
       ELSE SubSeq(entries, 1,
                   (CHOOSE k \in stop : \A m \in stop : k <= m) - 1)

\* entry k of the list repeats the name of an earlier entry
Repeats(entries, k) == \E i \in 1..(k - 1) : entries[i][1] = entries[k][1]

\* the table holds, for each name of the accepted entries and for no other
\* name, the value of the one accepted entry of that name (absent: default)
TableOf(table, acc, default) ==
    /\ DOMAIN table = {acc[i][1] : i \in 1..Len(acc)}
    /\ \A i, j \in 1..Len(acc) : acc[i][1] = acc[j][1] => i = j
    /\ \A i \in 1..Len(acc) :
          table[acc[i][1]] = IF Len(acc[i]) < 2 THEN default
                             ELSE ParseInt(acc[i][2])

\* the capacity section, the marking section has run
CapacityRan ==
    pc \notin {"signals", "capacity"} /\ bld.step.op # "signals"

MarkingRan ==
    /\ pc \notin {"signals", "capacity", "marking"}
    /\ bld.step.op \notin {"signals", "capacity"}

(***************************************************************************)
(* C19: once the capacity section has run, the capacity table holds one    *)
(* value per name, the value of the first entry of that name, and the      *)
(* build has failed if an entry repeated a name; the same holds of the     *)
(* marking table once the marking section has run; the tables are not      *)
(* changed afterwards, and a build that failed there generates nothing.    *)
(***************************************************************************)
C19_Inv ==
    /\ CapacityRan =>
          /\ TableOf(stg.capacity, Accepted(CapEntries, {2}), 1)
          /\ (\E k \in 1..Len(CapEntries) : Repeats(CapEntries, k)) =>
                (pc = "failed" /\ bld.step.op = "capacity" /\ NothingProduced)
    /\ MarkingRan =>
          /\ TableOf(stg.markings, Accepted(MarkEntries, {1, 2}), 1)
          /\ (\E k \in 1..Len(MarkEntries) : Repeats(MarkEntries, k)) =>
                (pc = "failed" /\ bld.step.op = "marking" /\ NothingProduced)

C19_Step ==
    /\ (pc = "capacity"
          /\ \E k \in 1..Len(CapEntries) :
                /\ Repeats(CapEntries, k)
                /\ \A i \in 1..(k - 1) : Len(CapEntries[i]) = 2)
       => (pc' = "failed" /\ stg'.error = "Duplicated capacity")
    /\ (pc = "marking"
          /\ \E k \in 1..Len(MarkEntries) :
                /\ Repeats(MarkEntries, k)
                /\ \A i \in 1..(k - 1) : Len(MarkEntries[i]) \in {1, 2})
       => (pc' = "failed" /\ stg'.error = "Duplicated marking")
    /\ pc \notin {"signals", "capacity"} => stg'.capacity = stg.capacity
    /\ pc \notin {"signals", "capacity", "marking"} =>
          stg'.markings = stg.markings

C19_OneOverridePerName == [](C19_Inv) /\ [][C19_Step]_vars

\* capacity entries p = 2, q = 3, p = 3: the build has failed at the third
\* one and the table still holds p = 2
C19_Witness ==
    /\ pc = "failed" /\ stg.error = "Duplicated capacity"
    /\ Len(CapEntries) = 3 /\ CapEntries[1][1] = CapEntries[3][1]
    /\ ParseInt(CapEntries[3][2]) # ParseInt(CapEntries[1][2])
    /\ stg.capacity[CapEntries[1][1]] = ParseInt(CapEntries[1][2])
    /\ DOMAIN stg.capacity = {CapEntries[1][1], CapEntries[2][1]}

(***************************************************************************)
(* C20 as stated: a build gets past the graph section only if the source   *)
(* has a graph section with at least one arc, a first token connected to   *)
(* at least one further token of its line; a graph whose lines all hold a  *)
(* single token fails the build.                                           *)
(***************************************************************************)
C20_Original ==
    (pc \in {"emit", "done", "exit"}) => ("graph" \in bld.ast.keys /\ HasArc)

\* the reading of a token text as identifier[edge-marker][/disambiguator]:
\* the identifier, the marker ('+', '-', '~' or none) and whether the whole
\* text has that shape
TokenShape(tok) ==
    LET n == IF Len(tok) > 0 /\ tok[1] \in IdStart
             THEN 1 + IdLen(tok, 2) ELSE 0
        base == SubSeq(tok, 1, n)
        dotless == \A i \in 1..n : tok[i] # "."
        marked == n < Len(tok) /\ tok[n + 1] \in {"+", "-", "~"}
        m == IF marked THEN n + 1 ELSE n
        tail == SubSeq(tok, m + 1, Len(tok))
    IN [base |-> base,
        marker |-> IF marked THEN Str(tok[n + 1]) ELSE <<>>,
        ok |-> /\ n > 0 /\ dotless
               /\ \/ tail = <<>>
                  \/ /\ tail[1] = "/"
                     /\ \A i \in 2..Len(tail) : tail[i] \in Digits]

\* the base identifier names a pin and no dummy
PinOnly(name) == name \in SignalNames(stg) /\ name \notin SeqRange(stg.dummies)

\* the resolution returned the transition tok of signal sig and edge class e
IsTransitionOf(r, tok, sig, e) ==
    /\ r.cls = "Transition" /\ r.name = tok /\ r.stg.error = ""
    /\ tok \in TransitionNames(r.stg)
    /\ TransitionOf(r.stg, tok).signame = sig
    /\ TransitionOf(r.stg, tok).edge = e

(***************************************************************************)
(* C21: at every point of the graph loops, a token text of the shape       *)
(* identifier[edge-marker][/disambiguator] whose identifier is a declared  *)
(* pin (and no dummy) resolves to the transition of that name, bound to    *)
(* the signal and to the edge class of the marker, whether the marker is   *)
(* '+', '-', '~' or absent.                                                *)
(***************************************************************************)
C21_Original ==
    Resolving =>
       \A tok \in TokenPool :
          LET sh == TokenShape(tok) IN
          (sh.ok /\ PinOnly(sh.base)) =>
             IsTransitionOf(matchTP(stg, tok), tok, sh.base, sh.marker)

\* the same with a marker present: this part the code keeps
C21_Marked ==
    Resolving =>
       \A tok \in TokenPool :
          LET sh == TokenShape(tok) IN
          (sh.ok /\ PinOnly(sh.base) /\ sh.marker # <<>>) =>
             IsTransitionOf(matchTP(stg, tok), tok, sh.base, sh.marker)

\* the token texts of the graphs explored: texts the grammar accepts
GraphTokens ==
    UNION {UNION {SeqRange(g.lines[i]) : i \in 1..Len(g.lines)} :
             g \in GraphOpts}

(***************************************************************************)
(* C22: at every point of the graph loops, a token text that has not the   *)
(* shape identifier[edge-marker][/disambiguator], such as "a+b" or "a++"   *)
(* with a declared pin a, is rejected: the resolution raises and returns   *)
(* neither a transition nor a place.                                       *)
(***************************************************************************)
C22_Original ==
    Resolving =>
       \A tok \in GraphTokens :
          LET sh == TokenShape(tok) IN
          (~sh.ok /\ PinOnly(sh.base)) =>
             LET r == matchTP(stg, tok) IN
             r.cls = "none" /\ r.stg.error # ""

\* the semantic diagnostics: capacity violation, write conflict,
\* unexplained edge, racing completion
Semantic == {"capacity", "conflict", "none", "many"}

\* the semantic diagnostics among the messages o of a statement
Raised(o) == {o[i].kind : i \in 1..Len(o)} \cap Semantic

\* the simulation was ended by the cap of the cascade loop
EndedByCap == iter > CascadeCap /\ out = <<Diag("fatal", <<>>)>>

(***************************************************************************)
(* C23 as claimed: in the model generated by the package and in the one    *)
(* generated by the script, a statement that raises a semantic diagnostic  *)
(* sets the error state and does not end the simulation, and the           *)
(* simulation is only ever ended by the cap of the cascade loop.           *)
(***************************************************************************)
C23_Original ==
    /\ [](pc = "fatal" => EndedByCap)
    /\ [][Raised(out') # {} => (errVar' /\ pc' # "fatal")]_vars

(***************************************************************************)
(* C23: in the model generated by the package, a statement that raises a   *)
(* semantic diagnostic sets the error state and does not end the           *)
(* simulation, which only the cap of the cascade loop ends; in the model   *)
(* generated by the script, every statement that raises a semantic         *)
(* diagnostic ends the simulation, and there is no error state to set.     *)
(***************************************************************************)
C23_Step ==
    Raised(out') # {} =>
       IF Script THEN pc' = "fatal" /\ ~errVar'
       ELSE errVar' /\ pc' # "fatal"

C23_FatalInScriptOnly ==
    /\ []((~Script /\ pc = "fatal") => EndedByCap)
    /\ [](Script => ~errVar)
    /\ [][C23_Step]_vars

\* the script's model has been ended by a capacity violation, far below
\* the cap
C23_Witness ==
    /\ Script /\ pc = "fatal" /\ iter <= CascadeCap
    /\ "capacity" \in Raised(out)

(***************************************************************************)
(* C24: the error state is sticky: no step of the generated model, the     *)
(* reset block included, takes STG_ERROR from true to false.               *)
(***************************************************************************)
C24_Step == errVar => errVar'

C24_StickyError == [][C24_Step]_vars

\* the error state was set, the reset input then went low and the reset
\* block has put every place back to its marking: the error state stands
C24_Witness ==
    /\ errVar /\ ~rst /\ pc = "cascade"
    /\ \A p \in PlaceNames(stg) : tokens[p] = PlaceOf(stg, p).marking
    /\ \E p \in PlaceNames(stg) : entry.tokens[p] # tokens[p]

\* the entries of the reset sequence of kind k for the name n
RstEntries(k, n) ==
    {i \in 1..Len(stg.rstAt) : stg.rstAt[i] = [kind |-> k, name |-> n]}

\* the reset sequence holds one assignment for every place, one for the pin
\* of every controllable signal, one for every ongoing cell, and no other
RstAtComplete ==
    /\ \A p \in PlaceNames(stg) : Cardinality(RstEntries("place", p)) = 1
    /\ \A a \in OutSignals(stg) : Cardinality(RstEntries("pin", a)) = 1
    /\ \A t \in VarTransitions(stg) : Cardinality(RstEntries("ongoing", t)) = 1
    /\ Len(stg.rstAt) = Cardinality(PlaceNames(stg))
                          + Cardinality(OutSignals(stg))
                          + Cardinality(VarTransitions(stg))

\* the state the reset sequence leaves
InReset(tok, level, cells) ==
    /\ \A p \in PlaceNames(stg) : tok[p] = PlaceOf(stg, p).marking
    /\ \A a \in OutSignals(stg) : level[a] = par[a]
    /\ \A t \in VarTransitions(stg) : ~cells[t]

(***************************************************************************)
(* C25: the reset sequence holds exactly one assignment for every place,   *)
(* explicit or implicit, and one for the pin of every controllable signal  *)
(* (and one for every ongoing cell); and in every state in which the reset *)
(* input reads low, every place holds its initial marking, every           *)
(* controllable pin is driven to its reset value and every ongoing cell is *)
(* false, whatever the state was before the reset input went low.          *)
(***************************************************************************)
C25_Inv == RstAtComplete /\ (~rst => InReset(tokens, st, ongoing))

C25_ResetComplete == [](C25_Inv)

\* the reset input went low on a model that had moved tokens, driven a pin
\* away from its reset value and had a request pending
C25_Witness ==
    /\ ~rst /\ InReset(tokens, st, ongoing)
    /\ \E p \in PlaceNames(stg) : entry.tokens[p] # PlaceOf(stg, p).marking
    /\ \E a \in OutSignals(stg) : entry.st[a] # par[a]
    /\ \E t \in VarTransitions(stg) : entry.ongoing[t]
    /\ \E p \in PlaceNames(stg) : Len(p) > 2 /\ PlaceOf(stg, p).marking > 0

RequestOps == {"reqRise", "reqFall", "reqToggle"}

\* the statement just executed was the request of t and ended in a write
\* conflict
ConflictAt(t) ==
    /\ last.took /\ last.t = t /\ last.op \in RequestOps
    /\ \E i \in 1..Len(out) : out[i] = Diag("conflict", t)

\* the statement just executed was the commit of t
CommitAt(t) == last.took /\ last.t = t /\ last.op = "commit"

(***************************************************************************)
(* C26 as claimed: the ongoing cell of a transition is false while the     *)
(* reset input is low, after its commit, and after a request of the        *)
(* transition that ended in a write conflict.                              *)
(***************************************************************************)
C26_Original ==
    \A t \in VarTransitions(stg) :
       (~rst \/ CommitAt(t) \/ ConflictAt(t)) => ~ongoing[t]

(***************************************************************************)
(* C26: the ongoing cell of a transition of a controllable signal is set   *)
(* by the request of the transition, which takes one token from each of    *)
(* its from-places, whether the request then issues its write or ends in   *)
(* a write conflict; it is cleared by the commit of the transition and by  *)
(* the reset block; no other step changes it.  Only transitions of         *)
(* controllable signals have a cell.                                       *)
(***************************************************************************)
C26_Step ==
    \A t \in VarTransitions(stg) :
       LET req == last'.took /\ last'.t = t /\ last'.op \in RequestOps
           com == last'.took /\ last'.t = t /\ last'.op = "commit"
       IN /\ ongoing'[t] = IF ~rst' THEN FALSE
                           ELSE IF req THEN TRUE
                           ELSE IF com THEN FALSE
                           ELSE ongoing[t]
          /\ (req /\ last' # last) =>
                tokens' = Taken(tokens, t)

C26_Cells ==
    /\ DOMAIN ongoing = VarTransitions(stg)
    /\ \A t \in VarTransitions(stg) :
          TransitionOf(stg, t).signame \in OutSignals(stg)

C26_OngoingCell == [](C26_Cells) /\ [][C26_Step]_vars

\* the request of a+ has just ended in a write conflict: its tokens are
\* taken and its cell is true
C26_Witness ==
    \E t \in VarTransitions(stg) :
       /\ ConflictAt(t) /\ ongoing[t] /\ errVar
       /\ \E p \in PlaceNames(stg) : entry.tokens[p] > tokens[p]

\* the net is complete: the graph loops are over and no assertion failed
Completed == pc \in {"emit", "done", "exit"} /\ stg.error = ""

\* the class of the object registered under a name
ClassOf(n) ==
    IF n \in PlaceNames(stg) THEN
       IF n \in TransitionNames(stg) THEN "both" ELSE "Place"
    ELSE IF n \in TransitionNames(stg) THEN "Transition" ELSE "none"

(***************************************************************************)
(* C27: after every accepted arc, and so in the completed net, every entry *)
(* of the incoming and outgoing list of a place is a registered transition *)
(* and every entry of the from- and to-list of a transition is a           *)
(* registered place; no name is registered as both; and the lists agree:   *)
(* a place is as often in the to-list of a transition as the transition is *)
(* in its incoming list, and likewise for from-list and outgoing list.     *)
(***************************************************************************)
C27_Inv ==
    /\ \A i \in 1..Len(stg.places) :
          LET P == stg.places[i] IN
          /\ \A j \in 1..Len(P.fromTransitions) :
                ClassOf(P.fromTransitions[j]) = "Transition"
          /\ \A j \in 1..Len(P.toTransitions) :
                ClassOf(P.toTransitions[j]) = "Transition"
          /\ ClassOf(P.name) = "Place"
    /\ \A i \in 1..Len(stg.transitions) :
          LET T == stg.transitions[i] IN
          /\ \A j \in 1..Len(T.fromPlaces) : ClassOf(T.fromPlaces[j]) = "Place"
          /\ \A j \in 1..Len(T.toPlaces) : ClassOf(T.toPlaces[j]) = "Place"
          /\ ClassOf(T.name) = "Transition"
    /\ \A i \in 1..Len(stg.places), j \in 1..Len(stg.transitions) :
          LET P == stg.places[i]
              T == stg.transitions[j]
          IN /\ Count(P.name, T.toPlaces) = Count(T.name, P.fromTransitions)
             /\ Count(P.name, T.fromPlaces) = Count(T.name, P.toTransitions)

C27_BipartiteNet == [](C27_Inv)

\* a completed net with the explicit place x- between i+ and d, and the
\* implicit place of the arc a+ i+, which was listed twice
C27_Witness ==
    /\ Completed /\ pc = "exit"
    /\ Xm \in PlaceNames(stg)
    /\ PlaceOf(stg, Xm).fromTransitions = <<Ip>>
    /\ PlaceOf(stg, Xm).toTransitions = <<nD>>
    /\ Imp(Ap, Ip) \in PlaceNames(stg)
    /\ PlaceOf(stg, Imp(Ap, Ip)).fromTransitions = <<Ap, Ap>>
    /\ TransitionOf(stg, Ip).fromPlaces = <<Imp(Ap, Ip), Imp(Ap, Ip)>>

(***************************************************************************)
(* C28: every place of a completed net has a capacity of at least 1 and a  *)
(* marking of at least 0, whatever the override sections give.             *)
(***************************************************************************)
C28_Original ==
    Completed =>
       \A i \in 1..Len(stg.places) :
          stg.places[i].capacity >= 1 /\ stg.places[i].marking >= 0

\* the part about the marking, which the code keeps
C28_Marking ==
    \A i \in 1..Len(stg.places) : stg.places[i].marking >= 0

\* a handler body: done.eq(0), the commits or the atomic firings, then the
\* two checks
HandlerOrdered(code) ==
    /\ Len(code) >= 3
    /\ code[1].op = "doneZero"
    /\ \A i \in 2..(Len(code) - 2) : code[i].op \in {"commit", "fireInput"}
    /\ code[Len(code) - 1].op = "chkNone"
    /\ code[Len(code)].op = "chkMany"

\* the step is an event: a pin or the reset input crosses
Event == pin' # pin \/ rst' # rst

(***************************************************************************)
(* C29: an event is only taken when the evaluation of the time point       *)
(* before it is over.  The handler of each crossing signal runs first, its *)
(* statements in order (commits or atomic firings, then the two checks),   *)
(* and the loop is entered right after the last of them; the loop is       *)
(* left only at its test after a pass that fired nothing, or by Fatal at   *)
(* the cap.  Every evaluation that began comes to its end.                 *)
(***************************************************************************)
C29_Code ==
    \A k \in 1..Len(stg.signals) :
       HandlerOrdered(mod.sigIfRising[k]) /\ HandlerOrdered(mod.sigIfFalling[k])

C29_Step ==
    /\ Event => (pc = "idle" /\ pc' \in {"handler", "cascade"})
    /\ (Event /\ pc' = "handler") => (ip' = 1 /\ Released(rst))
    /\ (pc = "idle" /\ pc' # "idle") => pc' \in {"handler", "cascade"}
    /\ pc = "handler" =>
          /\ pc' \in {"handler", "next", "cascade"}
          /\ ip' # ip => (last'.op = HandlerCode[ip].op
                            /\ ip' = IF pc' = "handler" THEN ip + 1 ELSE 0)
          /\ pc' # "handler" => (ip = Len(HandlerCode) /\ last'.op = "chkMany")
          /\ pc' = "cascade" <=> (pc' # "handler" /\ Len(blk) = 2)
    /\ pc = "next" => (pc' \in {"next", "handler"} /\ (pc' = "handler" => ip' = 1))
    /\ pc = "cascade" =>
          /\ pc' \in {"cascade", "while", "idle"}
          /\ pc' = "idle" => ~(Len(mod.cmdOut) > 0 /\ Released(rst))
    /\ pc \in {"while", "body", "cap"} =>
          pc' \in {"while", "body", "cap", "idle", "fatal"}
    /\ (pc = "while" /\ pc' = "idle") => (done # 0 /\ nfired = 0)
    /\ (pc # "fatal" /\ pc' = "fatal") => (pc = "cap" /\ iter > CascadeCap)

C29_EventOrdering ==
    /\ [](C29_Code)
    /\ [][C29_Step]_vars
    /\ (pc # "idle") ~> (pc \in {"idle", "fatal"})

\* in the instant of the rising edge of a, the commit of a+ has delivered
\* the tokens that the first pass of the loop uses to fire d and to
\* request a-
C29_Witness ==
    /\ pc = "cap" /\ iter = 1 /\ nfired = 2
    /\ blk[1] = "rising" /\ stg.signals[blk[2]].name = nA
    /\ last.op = "reqFall" /\ last.took /\ last.t = Am
    /\ Imp(Ap, nD) \in PlaceNames(stg) /\ tokens[Imp(Ap, nD)] = 0
    /\ tokens[Imp(nD, Im)] = 1 /\ ongoing[Am] /\ ~st[nA]

(***************************************************************************)
(* C30: in every state of the generated model of every net the builder     *)
(* accepts, a net that lists an arc twice included, no place holds fewer   *)
(* than 0 tokens.                                                          *)
(***************************************************************************)
C30_Original == \A p \in PlaceNames(stg) : tokens[p] >= 0

\* the statement about to be executed is a request of t whose condition holds
RequestOf(t) ==
    /\ pc = "body"
    /\ mod.cmdOut[ip].t = t /\ mod.cmdOut[ip].op \in RequestOps
    /\ Guard(stg, Mach, mod.cmdOut[ip])

(***************************************************************************)
(* C31: a transition of a controllable signal is never requested while    *)
(* its ongoing cell is true: between a request and the commit of the       *)
(* transition there is no second request of it, so the tokens a request    *)
(* takes are delivered by exactly one commit.                              *)
(***************************************************************************)
C31_Original ==
    [][\A t \in VarTransitions(stg) : RequestOf(t) => ~ongoing[t]]_vars

\* the statement the step executes, when the step is one of a handler or of
\* the loop body
Current == IF pc = "handler" THEN HandlerCode[ip] ELSE mod.cmdOut[ip]

\* the step fires, requests or commits a transition
Acts ==
    /\ pc \in {"handler", "body"}
    /\ Current.t # <<>>
    /\ Guard(stg, Mach, Current)

TakeOps == {"fireDummy", "fireInput", "reqRise", "reqFall", "reqToggle"}

GiveOps == {"fireDummy", "fireInput", "commit"}

(***************************************************************************)
(* C32: an atomic firing, a request or a commit of transition t changes    *)
(* only the token counts of the from-places of t (firing, request) and of  *)
(* the to-places of t (firing, commit), the ongoing cell of t, the done    *)
(* counter, the driven level of the signal of t and the error state: the   *)
(* count of every place that is no neighbour of t, the cell of every other *)
(* transition, the level of every other signal and the pass counter are    *)
(* unchanged.                                                              *)
(***************************************************************************)
C32_Step ==
    Acts =>
       LET t == Current.t
           mayTake == IF Current.op \in TakeOps THEN SeqRange(FromOf(t)) ELSE {}
           mayGive == IF Current.op \in GiveOps THEN SeqRange(ToOf(t)) ELSE {}
       IN /\ \A p \in PlaceNames(stg) \ (mayTake \cup mayGive) :
                tokens'[p] = tokens[p]
          /\ \A u \in VarTransitions(stg) \ {t} : ongoing'[u] = ongoing[u]
          /\ \A a \in OutSignals(stg) \ {Current.sig} : st'[a] = st[a]
          /\ Current.op \in GiveOps => st' = st
          /\ UNCHANGED <<iter, rst, pin, par>>

C32_FiringFrame == [][C32_Step]_vars

\* a+ has just committed while a+/1 is still pending and a place that is
\* no neighbour of a+ holds a token
C32_Witness ==
    /\ last.took /\ last.op = "commit"
    /\ \E u \in VarTransitions(stg) \ {last.t} : ongoing[u]
    /\ \E p \in PlaceNames(stg) \ (SeqRange(FromOf(last.t))
                                     \cup SeqRange(ToOf(last.t))) :
          tokens[p] > 0

(***************************************************************************)
(* C33: at a time point at which the reset input reads low, no statement   *)
(* of an edge handler or of the loop is executed: no transition fires, is  *)
(* requested or commits, no diagnostic is raised, the error state, the     *)
(* done counter and the pass counter are unchanged, and the crossing of a  *)
(* signal pin is ignored; the only writes are those of the reset sequence, *)
(* which leaves every place at its marking, every controllable pin at its  *)
(* reset value and every ongoing cell false.                               *)
(***************************************************************************)
C33_Step ==
    ~rst' =>
       /\ pc' \in {"idle", "cascade", "fatal"}
       /\ last' = NoStmt
       /\ out' = <<>>
       /\ errVar' = errVar /\ done' = done /\ iter' = iter
       /\ InReset(tokens', st', ongoing')
       /\ UNCHANGED <<nfired, entry, blk, ip>>

C33_ResetHolds == [][C33_Step]_vars

\* the reset input has been low since the start, the pin of an input has
\* risen while a '+' transition of that input was enabled, and nothing ran
C33_Witness ==
    /\ ~rst /\ pc = "cascade"
    /\ done = 0 /\ iter = 0 /\ ~errVar /\ nfired = 0
    /\ \E k \in 1..Len(stg.signals) :
          /\ stg.signals[k].dir = "input" /\ pin[stg.signals[k].name]
          /\ \E i \in 2..(Len(mod.sigIfRising[k]) - 2) :
                isEnabled(stg, Mach, mod.sigIfRising[k][i].t)

(***************************************************************************)
(* C34: the one done variable serves every edge handler as if the handler  *)
(* had a counter of its own.  From its first statement on, done holds the  *)
(* number of transitions this invocation of the handler has committed or   *)
(* fired so far, whatever the loop or the handler of another signal that   *)
(* crossed at the same time point left in it; the first check of the       *)
(* handler raises its diagnostic exactly when that number is 0 and the     *)
(* second exactly when it is 2 or more.                                    *)
(***************************************************************************)
C34_Inv ==
    /\ (pc = "handler" /\ ip > 1) => done = nfired
    /\ (pc \in {"next", "cascade"} /\ last.op = "chkMany") => done = nfired

C34_Step ==
    pc = "handler" =>
       /\ Current.op = "chkNone" => (last'.took <=> nfired = 0)
       /\ Current.op = "chkMany" => (last'.took <=> nfired > 1)
       /\ Current.op \in {"chkNone", "chkMany"} =>
             (errVar' <=> (errVar \/ last'.took))

C34_OwnCounter == [](C34_Inv) /\ [][C34_Step]_vars

\* the pins of a and i crossed at the same time point: the handler of a
\* committed two transitions and left done at 2, and the handler of i, which
\* began with that value, reaches its checks with done at 1, the one
\* transition it fired
C34_Witness ==
    /\ pc = "handler" /\ Current.op = "chkNone"
    /\ Len(mod.cmdOut) > 0
    /\ entry.done = 2 /\ nfired = 1 /\ done = 1

\* the handler of an input signal has just run the named check
InputCheckRan(op) ==
    /\ last.op = op /\ pc \in {"handler", "next", "cascade"}
    /\ HSig.dir = "input"

\* some place holds more tokens than its capacity
OverFull == \E p \in PlaceNames(stg) : tokens[p] > PlaceOf(stg, p).capacity

(***************************************************************************)
(* C35: the two checks close the handler of an input signal as they close  *)
(* the handler of a controllable one.  The first raises the unexplained-   *)
(* edge diagnostic and sets the error state exactly when no transition of  *)
(* the edge was enabled, so that none fired; the second raises the racing  *)
(* diagnostic and sets the error state exactly when two or more fired;     *)
(* with exactly one firing the checks raise nothing and do not set the     *)
(* error state (which the capacity check of a token the firing placed may  *)
(* still set, as for any placement).                                       *)
(***************************************************************************)
C35_Checks ==
    /\ InputCheckRan("chkNone") =>
          /\ last.took <=> nfired = 0
          /\ out = IF nfired = 0 THEN <<Diag("none", HSig.name)>> ELSE <<>>
          /\ nfired = 0 =>
                /\ errVar /\ tokens = entry.tokens
                /\ \A t \in OnEdge : ~isEnabled(stg, entry, t)
          /\ (\A t \in OnEdge : ~isEnabled(stg, entry, t)) => nfired = 0
    /\ InputCheckRan("chkMany") =>
          /\ last.took <=> nfired >= 2
          /\ out = IF nfired >= 2 THEN <<Diag("many", HSig.name)>> ELSE <<>>
          /\ nfired >= 2 => errVar
          /\ (nfired = 1 /\ ~entry.errVar /\ ~OverFull) => ~errVar
          /\ (nfired = 1 /\ ~entry.errVar /\ errVar) => OverFull

C35_Step ==
    (pc = "handler" /\ HSig.dir = "input" /\ Current.op = "fireInput") =>
       /\ last'.took <=> isEnabled(stg, Mach, Current.t)
       /\ errVar' <=> (errVar \/ Raised(out') # {})
       /\ Raised(out') \subseteq {"capacity"}

Toggles ==
    {t \in VarTransitions(stg) : TransitionOf(stg, t).edge = Str("~")}

\* the handler code holds the commit of t
CommitsIn(code, t) ==
    \E i \in 1..Len(code) : code[i].op = "commit" /\ code[i].t = t

(***************************************************************************)
(* C36: the request of a '~' transition of a controllable signal raises no *)
(* diagnostic and leaves the error state alone: whatever the commanded     *)
(* level of the signal is, the request inverts it (and takes the tokens    *)
(* and sets the ongoing cell).  The commit of the transition stands in the *)
(* handler of the rising and in the handler of the falling edge of its     *)
(* signal, so whichever edge is observed while the cell is true commits.   *)
(***************************************************************************)
C36_Code ==
    \A t \in Toggles : \A k \in 1..Len(stg.signals) :
       stg.signals[k].name = TransitionOf(stg, t).signame =>
          /\ CommitsIn(mod.sigIfRising[k], t)
          /\ CommitsIn(mod.sigIfFalling[k], t)

C36_Step ==
    /\ \A t \in Toggles :
          RequestOf(t) =>
             LET a == TransitionOf(stg, t).signame IN
             /\ st'[a] = ~st[a]
             /\ out' = <<>> /\ errVar' = errVar
             /\ ongoing'[t] /\ tokens' = Taken(tokens, t)
    /\ (pc = "handler" /\ Current.op = "commit" /\ Current.t \in Toggles
          /\ ongoing[Current.t]) =>
             /\ ~ongoing'[Current.t]
             /\ tokens' = Given(tokens, Current.t)
             /\ done' = done + 1
    /\ \A i \in 1..Len(out') : out'[i].kind = "conflict" =>
          out'[i].subject \notin Toggles

C36_ToggleNoConflict == [](C36_Code) /\ [][C36_Step]_vars

\* a~ was requested while a was commanded high, which drove a low, and the
\* falling edge of a has committed it
C36_Witness ==
    /\ last.op = "commit" /\ last.took /\ last.t \in Toggles
    /\ blk[1] = "falling" /\ entry.ongoing[last.t] /\ ~ongoing[last.t]
    /\ ~st[last.sig] /\ ~errVar

\* the transitions of the loop (of dummies and of controllable signals) that
\* have no from-place
Sources == {t \in CascadeTransitions : Len(FromOf(t)) = 0}

HasSource == Sources # {}

(***************************************************************************)
(* C37: a transition without from-place is always enabled: its statement   *)
(* finds its condition true whenever it is executed.  So in a net with a   *)
(* dummy transition or a transition of a controllable signal without       *)
(* from-place every pass of the loop fires or requests something: the      *)
(* first cascade evaluation entered with reset released never leaves the   *)
(* loop by the loop test, the pass counter runs past the cap and the       *)
(* evaluation ends with Fatal.  Before that evaluation no pass has run.    *)
(***************************************************************************)
C37_Inv ==
    HasSource =>
       /\ pc = "idle" => iter = 0
       /\ pc = "while" => (done = 0 /\ iter <= CascadeCap)
       /\ (pc \in {"cap", "while"} /\ iter > 0) => nfired > 0
       /\ pc = "fatal" =>
             (iter = CascadeCap + 1 /\ out = <<Diag("fatal", <<>>)>>)

C37_Step ==
    /\ (pc \in {"handler", "body"} /\ Current.t # <<>>
          /\ Current.op # "commit" /\ Len(FromOf(Current.t)) = 0) =>
             /\ last'.took
             /\ tokens' = IF Current.op \in RequestOps THEN tokens
                          ELSE Given(tokens, Current.t)
    /\ (HasSource /\ pc = "cascade" /\ Released(rst)) =>
          (pc' = "while" /\ iter' = 0)
    /\ (HasSource /\ pc \in {"while", "body", "cap"}) => pc' # "idle"

C37_SourceFatal ==
    /\ [](C37_Inv)
    /\ [][C37_Step]_vars
    /\ (HasSource /\ pc = "cascade" /\ Released(rst)) ~> (pc = "fatal")

\* a+ has no from-place: it was requested in each of the 501 passes of the
\* first evaluation, which ended with Fatal
C37_Witness ==
    /\ pc = "fatal" /\ iter = CascadeCap + 1
    /\ \E t \in Sources \cap VarTransitions(stg) : ongoing[t] /\ errVar
    /\ nfired = 1 /\ out = <<Diag("fatal", <<>>)>>

\* how often place p stands in the to-list (from-list) of transition t and
\* how often t stands in the incoming (outgoing) list of p, in the net g;
\* 0 for a name that is not registered
InTo(g, t, p) ==
    IF t \in TransitionNames(g)
    THEN Count(p, g.transitions[TransIdx(g, t)].toPlaces) ELSE 0

InFrom(g, t, p) ==
    IF t \in TransitionNames(g)
    THEN Count(p, g.transitions[TransIdx(g, t)].fromPlaces) ELSE 0

InIncoming(g, p, t) ==
    IF p \in PlaceNames(g)
    THEN Count(t, g.places[PlaceIdx(g, p)].fromTransitions) ELSE 0

InOutgoing(g, p, t) ==
    IF p \in PlaceNames(g)
    THEN Count(t, g.places[PlaceIdx(g, p)].toTransitions) ELSE 0

\* every name a list of the net g or the graph section can hold
NetNames(g) ==
    PlaceNames(g) \cup TransitionNames(g)
       \cup UNION {SeqRange(g.places[i].fromTransitions)
                     \cup SeqRange(g.places[i].toTransitions) :
                   i \in 1..Len(g.places)}
       \cup UNION {SeqRange(g.transitions[i].fromPlaces)
                     \cup SeqRange(g.transitions[i].toPlaces) :
                   i \in 1..Len(g.transitions)}

(***************************************************************************)
(* C38: at every point of the build, and so in the completed net, place p  *)
(* stands k times in the to-list of transition t exactly when t stands k   *)
(* times in the incoming list of p, and k times in the from-list of t      *)
(* exactly when t stands k times in the outgoing list of p, for explicit   *)
(* and implicit places alike and for arcs listed more than once; and every *)
(* accepted arc adds one occurrence on each side: to the two lists of the  *)
(* arc between a place and a transition, to the four lists around the      *)
(* implicit place of an arc between two transitions.                       *)
(***************************************************************************)
C38_Inv ==
    \A p \in NetNames(stg), t \in NetNames(stg) :
       /\ InTo(stg, t, p) = InIncoming(stg, p, t)
       /\ InFrom(stg, t, p) = InOutgoing(stg, p, t)

C38_Step ==
    (bld'.step.op = "to" /\ bld'.step # bld.step /\ stg'.error = "") =>
       LET f == bld'.step.from
           u == bld'.step.to
           imp == f \o Str(",") \o u
       IN CASE bld'.step.fromCls = "Transition" /\ bld'.step.toCls = "Transition" ->
                 /\ InTo(stg', f, imp) = InTo(stg, f, imp) + 1
                 /\ InIncoming(stg', imp, f) = InIncoming(stg, imp, f) + 1
                 /\ InFrom(stg', u, imp) = InFrom(stg, u, imp) + 1
                 /\ InOutgoing(stg', imp, u) = InOutgoing(stg, imp, u) + 1
            [] bld'.step.fromCls = "Transition" /\ bld'.step.toCls = "Place" ->
                 /\ InTo(stg', f, u) = InTo(stg, f, u) + 1
                 /\ InIncoming(stg', u, f) = InIncoming(stg, u, f) + 1
            [] bld'.step.fromCls = "Place" /\ bld'.step.toCls = "Transition" ->
                 /\ InFrom(stg', u, f) = InFrom(stg, u, f) + 1
                 /\ InOutgoing(stg', f, u) = InOutgoing(stg, f, u) + 1

C38_BackReferences == [](C38_Inv) /\ [][C38_Step]_vars

\* the completed net of a graph that lists i+ -> p and p -> a- twice and
\* has the implicit place of a- -> i+
C38_Witness ==
    /\ Completed /\ pc = "exit"
    /\ InTo(stg, Ip, nP) = 2 /\ InIncoming(stg, nP, Ip) = 2
    /\ InFrom(stg, Am, nP) = 2 /\ InOutgoing(stg, nP, Am) = 2
    /\ InTo(stg, Am, Imp(Am, Ip)) = 1 /\ InOutgoing(stg, Imp(Am, Ip), Ip) = 1

\* the names the graph section refers to as places in the net n: the tokens
\* of its lines that are not transitions of n, and the implicit place of
\* every two transitions a line connects
GraphPlaces(n) ==
    LET L == GraphLines
        isT(tok) == tok \in TransitionNames(n)
    IN UNION {{tok \in SeqRange(L[i]) : ~isT(tok)} : i \in 1..Len(L)}
       \cup UNION {{Imp(L[i][1], L[i][k]) :
                      k \in {j \in 2..Len(L[i]) : isT(L[i][1]) /\ isT(L[i][j])}} :
                   i \in 1..Len(L)}

\* the entries of a section that name a place of the graph
Kept(entries, n) == SelectSeq(entries, LAMBDA e : e[1] \in GraphPlaces(n))

\* the parse result without the override entries that name no place of
\* the graph
Pruned(n) ==
    [bld.ast EXCEPT !.marking = <<Kept(MarkEntries, n)>>,
                    !.capacity = <<Kept(CapEntries, n)>>]

\* some override entry names no place of the graph
Unreferenced(n) ==
    \/ \E k \in 1..Len(MarkEntries) : MarkEntries[k][1] \notin GraphPlaces(n)
    \/ \E k \in 1..Len(CapEntries) : CapEntries[k][1] \notin GraphPlaces(n)

(***************************************************************************)
(* C39: a marking entry without a count enters the marking 1 for its name  *)
(* and a place of that name has the initial marking 1; a capacity entry    *)
(* without a count fails the build in the capacity section and nothing is  *)
(* generated; the override sections create no place and no transition; the *)
(* places of a completed net are the places the graph refers to, and the   *)
(* net is, but for the two tables, the net built without the entries that  *)
(* name no place of the graph.                                             *)
(***************************************************************************)
C39_Inv ==
    /\ MarkingRan =>
          LET acc == Accepted(MarkEntries, {1, 2}) IN
          \A k \in 1..Len(acc) :
             Len(acc[k]) = 1 =>
                /\ acc[k][1] \in DOMAIN stg.markings
                /\ stg.markings[acc[k][1]] = 1
                /\ acc[k][1] \in PlaceNames(stg) =>
                      PlaceOf(stg, acc[k][1]).marking = 1
    /\ (CapacityRan /\ \E k \in 1..Len(CapEntries) : Len(CapEntries[k]) = 1)
       => /\ pc = "failed" /\ bld.step.op = "capacity" /\ NothingProduced
          /\ stg.error \in {"capacity list must have two elements",
                            "Duplicated capacity"}
          /\ stg.places = <<>>
    /\ Completed =>
          /\ PlaceNames(stg) = GraphPlaces(stg)
          /\ \A name \in (DOMAIN stg.markings \cup DOMAIN stg.capacity) :
                name \notin GraphPlaces(stg) => name \notin PlaceNames(stg)
          /\ LET q == Build(Pruned(stg), bld.sigMap) IN
             stg = [q EXCEPT !.markings = stg.markings,
                             !.capacity = stg.capacity]

C39_Step ==
    /\ pc \in {"capacity", "marking"} =>
          /\ stg'.places = stg.places
          /\ stg'.transitions = stg.transitions
          /\ stg'.rstAt = stg.rstAt
    /\ (pc = "capacity" /\ CapEntries # <<>> /\ Len(CapEntries[1]) = 1) =>
          (pc' = "failed"
             /\ stg'.error = "capacity list must have two elements")

C39_OverrideEntries == [](C39_Inv) /\ [][C39_Step]_vars

\* the completed net of a- -> i+ with the marking entries <a-,i+> (no
\* count) and q = 2 and the capacity entry p = 2: the implicit place holds
\* one token, and neither q nor p is a place
C39_Witness ==
    /\ Completed /\ pc = "exit"
    /\ MarkEntries = << <<Imp(Am, Ip)>>, <<nQ, <<"2">> >> >>
    /\ CapEntries = << <<nP, <<"2">> >> >>
    /\ Imp(Am, Ip) \in PlaceNames(stg)
    /\ PlaceOf(stg, Imp(Am, Ip)).marking = 1
    /\ stg.markings[nQ] = 2 /\ stg.capacity[nP] = 2
    /\ nQ \notin PlaceNames(stg) /\ nP \notin PlaceNames(stg)
    /\ Unreferenced(stg)
====
